---- MODULE Spec2Model ----
(***************************************************************************)
(* caejobdiary: the status-inference engine                                *)
(* (utils/jobinfo/status.py, utils/caefileio/clusterscript.py), the        *)
(* new-job ingestor (utils/jobinfo/poll.py) and the status refresher       *)
(* (utils/jobinfo/update.py), run against a filesystem that the cluster    *)
(* scheduler and the users change concurrently.                            *)
(*                                                                         *)
(* File names are sequences of one-character strings, so that the regular  *)
(* expressions of the source are evaluated character by character.         *)
(***************************************************************************)
EXTENDS Integers, Sequences, FiniteSets, TLC

(***************************************************************************)
(* Bounds of the model                                                     *)
(***************************************************************************)
\* largest number of entries the submission directory holds at once
MaxEntries == 4

(***************************************************************************)
(* Job model constants (diary/models.py)                                   *)
(***************************************************************************)
JOB_STATUS_NONE == "non"
JOB_STATUS_PENDING == "pen"
JOB_STATUS_RUNNING == "run"
JOB_STATUS_FINISHED == "fin"
JOB_STATUS_NORMAL_TERMINATION == "nor"
JOB_STATUS_ERROR_TERMINATION == "err"
JOB_STATUS_OTHER_TERMINATION == "oth"

JOB_STATUS_CHOICES ==
    { JOB_STATUS_NONE, JOB_STATUS_PENDING, JOB_STATUS_RUNNING,
      JOB_STATUS_FINISHED, JOB_STATUS_NORMAL_TERMINATION,
      JOB_STATUS_ERROR_TERMINATION, JOB_STATUS_OTHER_TERMINATION }

\* Python's None where a status string is expected
NoStatus == "None"

\* the job ids of the model; str(12) is a proper prefix of str(123)
JobIds == {12, 123}

(***************************************************************************)
(* Strings                                                                 *)
(***************************************************************************)
Digit == {"0", "1", "2", "3", "4", "5", "6", "7", "8", "9"}
Lower == {"a", "b", "c", "d", "e", "f", "g", "h", "i", "j", "k", "l", "m",
          "n", "o", "p", "q", "r", "s", "t", "u", "v", "w", "x", "y", "z"}

DigitChar(d) ==
    CASE d = 0 -> "0" [] d = 1 -> "1" [] d = 2 -> "2" [] d = 3 -> "3"
      [] d = 4 -> "4" [] d = 5 -> "5" [] d = 6 -> "6" [] d = 7 -> "7"
      [] d = 8 -> "8" [] d = 9 -> "9"

\* str(job_id) for a non-negative integer
RECURSIVE Str(_)
Str(n) == IF n < 10 THEN <<DigitChar(n)>>
          ELSE Append(Str(n \div 10), DigitChar(n % 10))

StartsWith(s, p) == Len(s) >= Len(p) /\ SubSeq(s, 1, Len(p)) = p
Rest(s, p) == SubSeq(s, Len(p) + 1, Len(s))

PendingSuffix == <<".", "p", "e", "n", "d", "i", "n", "g">>
ScriptTailA == <<".", "d", "y", "n", "-", "d", "m", "p", ".", "x", "9", "9",
                 "x", "x", "1", "2", "3", ".", "1", "6", ".", "s", "h">>
ScriptTailB == <<".", "i", "m", "p", "-", "s", "m", "p", ".", "l", "0", "1",
                 "c", "l", "0", "1", "2", ".", "8", ".", "s", "h">>
RenamedTailA == <<"_", "o", "l", "d">>
RenamedTailB == <<"_", "v", "2">>

finished_job_foldername(job_id) == Str(job_id)
pending_job_foldername(job_id) == Str(job_id) \o PendingSuffix

(***************************************************************************)
(* The filesystem                                                          *)
(*                                                                         *)
(* fs.sub   what os.listdir(sub_dir) meets: "ok", or the error it raises   *)
(* fs.ents  the entries of sub_dir, fs.scr those of the cluster scratch    *)
(*          area; an entry is [name, t, perm, readme, line]:                 *)
(*            t       "dir" or "file"                                      *)
(*            perm    the entry can be listed / read                       *)
(*            readme  of a directory: the README it holds                  *)
(*            line    of a file: its first line, as f.readline() gives it  *)
(***************************************************************************)
VARIABLES fs,       \* the filesystem
          rs,       \* the activations of get_job_status_and_job_dir_from_sub_dir
          first,    \* SpecTwice: the activation of the first of two calls
          store,    \* the Job records of the database, by job_id
          ing,      \* the activation of start_job_creation_process_from_joblogfile
          upd,      \* the activation of update_status_of_unfinished_jobs_in_DB
          kill_now, \* GracefulKiller.kill_now of the update process
          poll,     \* main of the polling process and the files of POLL_DIR
          call,     \* a function of utils/caefileio called on its own
          base_runs \* the table of Job.base_runs: pairs of job and base run

\* no function has been called on its own
NoCall == [fn |-> "none", arg |-> <<>>, ret |-> <<>>]

ListingErrors == {"NotADirectoryError", "FileNotFoundError",
                  "PermissionError", "OSError"}

ReadmeKinds == {"full", "fullB", "partial", "empty", "baddate", "locked"}

DirEntry(name, perm, readme) ==
    [name |-> name, t |-> "dir", perm |-> perm, readme |-> readme,
     line |-> <<>>]
FileEntry(name, perm, line) ==
    [name |-> name, t |-> "file", perm |-> perm, readme |-> "none",
     line |-> line]

\* paths: os.path.join(sub_dir, name), a directory of the scratch area, None
NoPath == [root |-> "none", name |-> <<>>]
SubPath(name) == [root |-> "sub", name |-> name]
ScratchPath(name) == [root |-> "scr", name |-> name]

\* the scratch area, and the path a string names: "/scratch/<name>" is a
\* directory of the scratch area, any other string names nothing that exists
ScratchRoot == <<"/", "s", "c", "r", "a", "t", "c", "h", "/">>
PathOf(string) ==
    IF StartsWith(string, ScratchRoot) /\ Len(string) > Len(ScratchRoot)
    THEN ScratchPath(Rest(string, ScratchRoot))
    ELSE [root |-> "other", name |-> string]

Entries(f, root) == IF root = "sub" THEN f.ents
                    ELSE IF root = "scr" THEN f.scr ELSE {}
Exists(f, p) ==
    /\ p.root = "sub" => f.sub = "ok"
    /\ \E e \in Entries(f, p.root) : e.name = p.name
NodeAt(f, p) == CHOOSE e \in Entries(f, p.root) : e.name = p.name
\* os.path.isdir
isdir(f, p) == Exists(f, p) /\ NodeAt(f, p).t = "dir"

Names(f) == {e.name : e \in f.ents}
InSeq(x, s) == \E i \in 1..Len(s) : s[i] = x
\* os.listdir returns the names in arbitrary order
Orders(S) == {o \in [1..Cardinality(S) -> S] :
                 \A i, k \in 1..Cardinality(S) : i # k => o[i] # o[k]}

(***************************************************************************)
(* utils/caefileio/clusterscript.py                                        *)
(***************************************************************************)
\* "\.[a-z]{3}-[a-z]{3}\.[a-z][\d]{2}[a-z]{2}[\d]{3}\.[\d]{1,2}\.sh$"
ClusterScriptTailMatch(t) ==
    /\ Len(t) \in {22, 23}
    /\ t[1] = "."
    /\ \A i \in 2..4 : t[i] \in Lower
    /\ t[5] = "-"
    /\ \A i \in 6..8 : t[i] \in Lower
    /\ t[9] = "."
    /\ t[10] \in Lower
    /\ \A i \in 11..12 : t[i] \in Digit
    /\ \A i \in 13..14 : t[i] \in Lower
    /\ \A i \in 15..17 : t[i] \in Digit
    /\ t[18] = "."
    /\ \A i \in 19..(Len(t) - 3) : t[i] \in Digit
    /\ t[Len(t) - 2] = "."
    /\ t[Len(t) - 1] = "s"
    /\ t[Len(t)] = "h"

\* faulty variant: the pattern is cut after the job id
cluster_script_pattern_IdOnly(job_id, name) ==
    StartsWith(name, Str(job_id))

cluster_script_pattern(job_id, name) ==
    /\ StartsWith(name, Str(job_id))
    /\ ClusterScriptTailMatch(Rest(name, Str(job_id)))

\* the first name of file_list that matches the pattern, <<>> for None
get_cluster_script_from_list(job_id, file_list) ==
    LET matches == SelectSeq(file_list,
                             LAMBDA n : cluster_script_pattern(job_id, n))
    IN IF matches # <<>> THEN matches[1] ELSE <<>>

\* "cd" in line
Contains(line, part) ==
    \E i \in 1..(Len(line) - Len(part) + 1) :
        SubSeq(line, i, i + Len(part) - 1) = part

\* line.split(" "): the parts between single blanks, empty parts included
RECURSIVE split(_)
split(line) ==
    LET blanks == {i \in 1..Len(line) : line[i] = " "}
    IN IF blanks = {} THEN <<line>>
       ELSE LET i == CHOOSE b \in blanks : \A k \in blanks : b <= k
            IN <<SubSeq(line, 1, i - 1)>>
               \o split(SubSeq(line, i + 1, Len(line)))

\* str.strip(): leading and trailing whitespace removed
Whitespace == {" ", "\n", "\t", "\r"}
RECURSIVE lstrip(_)
lstrip(string) ==
    IF string # <<>> /\ Head(string) \in Whitespace
    THEN lstrip(Tail(string)) ELSE string
RECURSIVE rstrip(_)
rstrip(string) ==
    IF string # <<>> /\ string[Len(string)] \in Whitespace
    THEN rstrip(SubSeq(string, 1, Len(string) - 1)) ELSE string
strip(string) == rstrip(lstrip(string))

\* faulty variant: the trailing "*" stays in the path
cluster_scratch_path_KeepsStar(line) ==
    IF Contains(line, <<"c", "d">>) /\ Len(split(line)) > 1
    THEN strip(split(line)[2])
    ELSE <<>>

\* the else branch after the read: the path the first line names, <<>> for
\* None
cluster_scratch_path(line) ==
    IF Contains(line, <<"c", "d">>)
    THEN LET line_split == split(line)
         IN IF Len(line_split) > 1
            THEN LET path == strip(line_split[2])
                 IN IF path # <<>> /\ path[Len(path)] = "*"
                    THEN SubSeq(path, 1, Len(path) - 1)
                    ELSE path
            ELSE <<>>
    ELSE <<>>

\* [raised |-> an exception escapes, path |-> the return value, NoPath for None]
get_cluster_scratch_dir_from_script(f, cluster_script_filepath) ==
    IF ~Exists(f, cluster_script_filepath)
    THEN [raised |-> FALSE, path |-> NoPath]          \* FileNotFoundError
    ELSE LET node == NodeAt(f, cluster_script_filepath)
         IN IF node.t = "dir"
            THEN [raised |-> TRUE, path |-> NoPath]   \* IsADirectoryError
            ELSE IF ~node.perm
            THEN [raised |-> FALSE, path |-> NoPath]  \* PermissionError
            ELSE IF cluster_scratch_path(node.line) # <<>>
            THEN [raised |-> FALSE,
                  path |-> PathOf(cluster_scratch_path(node.line))]
            ELSE [raised |-> FALSE, path |-> NoPath]

(***************************************************************************)
(* utils/jobinfo/status.py                                                 *)
(***************************************************************************)
\* faulty variant: the pattern has no lookahead
renamed_job_folder_pattern_NoLookahead(job_id, name) ==
    StartsWith(name, Str(job_id))

\* "^" + str(job_id) + "(?!.pending).*$": the dot of the lookahead is not
\* escaped and stands for any one character
renamed_job_folder_pattern(job_id, name) ==
    /\ StartsWith(name, Str(job_id))
    /\ LET rest == Rest(name, Str(job_id))
       IN ~(Len(rest) >= 8 /\ SubSeq(rest, 2, 8) = Tail(PendingSuffix))

get_renamed_job_folder_from_list(job_id, file_list) ==
    LET matches == SelectSeq(file_list,
                             LAMBDA n : renamed_job_folder_pattern(job_id, n))
    IN IF matches # <<>> THEN matches[1] ELSE <<>>

\* faulty variant: the retry burst is granted to every call
checks_limit_Always3(recent) == 3

checks_limit(recent) == IF recent THEN 3 ELSE 1

\* faulty variant: the loop goes on although a pass has set job_status
KeepChecking_CounterOnly(r) ==
    r.checks_counter < checks_limit(r.recent)

\* the condition of the while loop
KeepChecking(r) ==
    r.checks_counter < checks_limit(r.recent) /\ r.job_status = NoStatus

\* faulty variant: the cluster script is looked at before the finished folder
CheckContent_ScriptFirst(f, job_id, sub_dir_content) ==
    LET cluster_script_filename ==
            get_cluster_script_from_list(job_id, sub_dir_content)
        scratch == get_cluster_scratch_dir_from_script(
                       f, SubPath(cluster_script_filename))
        renamed_job_folder ==
            get_renamed_job_folder_from_list(job_id, sub_dir_content)
    IN IF cluster_script_filename # <<>>
       THEN [raised |-> scratch.raised,
             job_status |-> JOB_STATUS_RUNNING, job_dir |-> scratch.path]
       ELSE IF InSeq(finished_job_foldername(job_id), sub_dir_content)
       THEN [raised |-> FALSE, job_status |-> JOB_STATUS_FINISHED,
             job_dir |-> SubPath(finished_job_foldername(job_id))]
       ELSE IF InSeq(pending_job_foldername(job_id), sub_dir_content)
       THEN [raised |-> FALSE, job_status |-> JOB_STATUS_PENDING,
             job_dir |-> SubPath(pending_job_foldername(job_id))]
       ELSE IF renamed_job_folder # <<>>
               /\ isdir(f, SubPath(renamed_job_folder))
       THEN [raised |-> FALSE, job_status |-> JOB_STATUS_FINISHED,
             job_dir |-> SubPath(renamed_job_folder)]
       ELSE [raised |-> FALSE, job_status |-> NoStatus, job_dir |-> NoPath]

\* faulty variant: the renamed folder is taken without os.path.isdir
CheckContent_RenamedUntested(f, job_id, sub_dir_content) ==
    LET cluster_script_filename ==
            get_cluster_script_from_list(job_id, sub_dir_content)
        scratch == get_cluster_scratch_dir_from_script(
                       f, SubPath(cluster_script_filename))
        renamed_job_folder ==
            get_renamed_job_folder_from_list(job_id, sub_dir_content)
    IN IF InSeq(finished_job_foldername(job_id), sub_dir_content)
       THEN [raised |-> FALSE, job_status |-> JOB_STATUS_FINISHED,
             job_dir |-> SubPath(finished_job_foldername(job_id))]
       ELSE IF cluster_script_filename # <<>>
       THEN [raised |-> scratch.raised,
             job_status |-> JOB_STATUS_RUNNING, job_dir |-> scratch.path]
       ELSE IF InSeq(pending_job_foldername(job_id), sub_dir_content)
       THEN [raised |-> FALSE, job_status |-> JOB_STATUS_PENDING,
             job_dir |-> SubPath(pending_job_foldername(job_id))]
       ELSE IF renamed_job_folder # <<>>
       THEN [raised |-> FALSE, job_status |-> JOB_STATUS_FINISHED,
             job_dir |-> SubPath(renamed_job_folder)]
       ELSE [raised |-> FALSE, job_status |-> NoStatus, job_dir |-> NoPath]

\* faulty variant: a cluster script without scratch directory is passed over
CheckContent_ScriptNeedsPath(f, job_id, sub_dir_content) ==
    LET cluster_script_filename ==
            get_cluster_script_from_list(job_id, sub_dir_content)
        scratch == get_cluster_scratch_dir_from_script(
                       f, SubPath(cluster_script_filename))
        renamed_job_folder ==
            get_renamed_job_folder_from_list(job_id, sub_dir_content)
    IN IF InSeq(finished_job_foldername(job_id), sub_dir_content)
       THEN [raised |-> FALSE, job_status |-> JOB_STATUS_FINISHED,
             job_dir |-> SubPath(finished_job_foldername(job_id))]
       ELSE IF cluster_script_filename # <<>>
               /\ (scratch.raised \/ scratch.path # NoPath)
       THEN [raised |-> scratch.raised,
             job_status |-> JOB_STATUS_RUNNING, job_dir |-> scratch.path]
       ELSE IF InSeq(pending_job_foldername(job_id), sub_dir_content)
       THEN [raised |-> FALSE, job_status |-> JOB_STATUS_PENDING,
             job_dir |-> SubPath(pending_job_foldername(job_id))]
       ELSE IF renamed_job_folder # <<>>
               /\ isdir(f, SubPath(renamed_job_folder))
       THEN [raised |-> FALSE, job_status |-> JOB_STATUS_FINISHED,
             job_dir |-> SubPath(renamed_job_folder)]
       ELSE [raised |-> FALSE, job_status |-> NoStatus, job_dir |-> NoPath]

\* faulty variant: the pending folder is not looked for
CheckContent_NoPendingRule(f, job_id, sub_dir_content) ==
    LET cluster_script_filename ==
            get_cluster_script_from_list(job_id, sub_dir_content)
        scratch == get_cluster_scratch_dir_from_script(
                       f, SubPath(cluster_script_filename))
        renamed_job_folder ==
            get_renamed_job_folder_from_list(job_id, sub_dir_content)
    IN IF InSeq(finished_job_foldername(job_id), sub_dir_content)
       THEN [raised |-> FALSE, job_status |-> JOB_STATUS_FINISHED,
             job_dir |-> SubPath(finished_job_foldername(job_id))]
       ELSE IF cluster_script_filename # <<>>
       THEN [raised |-> scratch.raised,
             job_status |-> JOB_STATUS_RUNNING, job_dir |-> scratch.path]
       ELSE IF renamed_job_folder # <<>>
               /\ isdir(f, SubPath(renamed_job_folder))
       THEN [raised |-> FALSE, job_status |-> JOB_STATUS_FINISHED,
             job_dir |-> SubPath(renamed_job_folder)]
       ELSE [raised |-> FALSE, job_status |-> NoStatus, job_dir |-> NoPath]

\* the else branch of the try: one evaluation of a listing of sub_dir
CheckContent(f, job_id, sub_dir_content) ==
    LET cluster_script_filename ==
            get_cluster_script_from_list(job_id, sub_dir_content)
        scratch == get_cluster_scratch_dir_from_script(
                       f, SubPath(cluster_script_filename))
        renamed_job_folder ==
            get_renamed_job_folder_from_list(job_id, sub_dir_content)
    IN IF InSeq(finished_job_foldername(job_id), sub_dir_content)
       THEN [raised |-> FALSE, job_status |-> JOB_STATUS_FINISHED,
             job_dir |-> SubPath(finished_job_foldername(job_id))]
       ELSE IF cluster_script_filename # <<>>
       THEN [raised |-> scratch.raised,
             job_status |-> JOB_STATUS_RUNNING, job_dir |-> scratch.path]
       ELSE IF InSeq(pending_job_foldername(job_id), sub_dir_content)
       THEN [raised |-> FALSE, job_status |-> JOB_STATUS_PENDING,
             job_dir |-> SubPath(pending_job_foldername(job_id))]
       ELSE IF renamed_job_folder # <<>>
               /\ isdir(f, SubPath(renamed_job_folder))
       THEN [raised |-> FALSE, job_status |-> JOB_STATUS_FINISHED,
             job_dir |-> SubPath(renamed_job_folder)]
       ELSE [raised |-> FALSE, job_status |-> NoStatus, job_dir |-> NoPath]

\* faulty variant: the found job_dir is returned without os.path.isdir
ReturnValue_NoDirCheck(f, r) ==
    IF r.job_status # NoStatus /\ r.job_dir # NoPath
    THEN [job_status |-> r.job_status, job_dir |-> r.job_dir]
    ELSE [job_status |-> JOB_STATUS_NONE, job_dir |-> NoPath]

\* the statements after the loop: the value returned
ReturnValue(f, r) ==
    IF r.job_status # NoStatus /\ r.job_dir # NoPath /\ isdir(f, r.job_dir)
    THEN [job_status |-> r.job_status, job_dir |-> r.job_dir]
    ELSE [job_status |-> JOB_STATUS_NONE, job_dir |-> NoPath]

(***************************************************************************)
(* An activation of get_job_status_and_job_dir_from_sub_dir, one per       *)
(* caller.  log keeps, per pass of the loop, whether time.sleep(1) was     *)
(* called, whether os.listdir succeeded, and the job_status the pass set.  *)
(***************************************************************************)
Callers == {"direct", "ingest", "update"}

NoReturn == [job_status |-> NoStatus, job_dir |-> NoPath]

IdleResolver ==
    [pc |-> "idle", job_id |-> 0, recent |-> FALSE, checks_counter |-> 0,
     job_status |-> NoStatus, job_dir |-> NoPath, log |-> <<>>,
     ret |-> NoReturn, fs0 |-> [sub |-> "ok", ents |-> {}, scr |-> {}]]

\* the call: fs0 remembers the filesystem the call started on
CallResolver(f, job_id, recent) ==
    [IdleResolver EXCEPT !.pc = "run", !.job_id = job_id, !.recent = recent,
                         !.fs0 = f]

\* faulty variant: the exception of os.listdir is not caught
PassListingFailed_Raises(r) ==
    [r EXCEPT !.pc = "raised",
              !.checks_counter = r.checks_counter + 1,
              !.log = Append(r.log, [slept |-> r.checks_counter + 1 > 1,
                                     listed |-> FALSE,
                                     job_status |-> NoStatus,
                                     valid |-> FALSE])]

\* one pass of the loop whose os.listdir raised
PassListingFailed(r) ==
    [r EXCEPT !.checks_counter = r.checks_counter + 1,
              !.log = Append(r.log, [slept |-> r.checks_counter + 1 > 1,
                                     listed |-> FALSE,
                                     job_status |-> NoStatus,
                                     valid |-> FALSE])]

\* one pass of the loop whose os.listdir returned sub_dir_content; valid
\* notes whether the job_dir the pass set was a directory at that moment
PassListed(f, r, sub_dir_content) ==
    LET res == CheckContent(f, r.job_id, sub_dir_content)
    IN [r EXCEPT !.pc = IF res.raised THEN "raised" ELSE r.pc,
                 !.checks_counter = r.checks_counter + 1,
                 !.job_status = res.job_status,
                 !.job_dir = res.job_dir,
                 !.log = Append(r.log,
                                [slept |-> r.checks_counter + 1 > 1,
                                 listed |-> TRUE,
                                 job_status |-> res.job_status,
                                 valid |-> /\ res.job_status # NoStatus
                                           /\ isdir(f, res.job_dir)])]

RAttempt(c) ==
    /\ rs[c].pc = "run"
    /\ KeepChecking(rs[c])
    /\ IF fs.sub # "ok"
       THEN rs' = [rs EXCEPT ![c] = PassListingFailed(rs[c])]
       ELSE \E sub_dir_content \in Orders(Names(fs)) :
               rs' = [rs EXCEPT ![c] = PassListed(fs, rs[c], sub_dir_content)]

RReturn(c) ==
    /\ rs[c].pc = "run"
    /\ ~KeepChecking(rs[c])
    /\ rs' = [rs EXCEPT ![c] = [rs[c] EXCEPT !.pc = "done",
                                             !.ret = ReturnValue(fs, rs[c])]]

(***************************************************************************)
(* What the scheduler and the users do to the filesystem                   *)
(***************************************************************************)
ScratchName(j) == Str(j)
\* the line the scheduler writes: cd /scratch/<name>* and a newline
CdLine(name) == <<"c", "d", " ">> \o ScratchRoot \o name \o <<"*", "\n">>
ScriptNameA(j) == Str(j) \o ScriptTailA
ScriptNameB(j) == Str(j) \o ScriptTailB
RenamedNameA(j) == Str(j) \o RenamedTailA
RenamedNameB(j) == Str(j) \o RenamedTailB

Without(S, name) == {e \in S : e.name # name}

\* the job leaves the queue: the pending folder moves to the scratch area
EnvDequeue(j) ==
    /\ fs.sub = "ok"
    /\ isdir(fs, SubPath(pending_job_foldername(j)))
    /\ ~Exists(fs, ScratchPath(ScratchName(j)))
    /\ LET pend == NodeAt(fs, SubPath(pending_job_foldername(j)))
       IN fs' = [fs EXCEPT
                   !.ents = Without(fs.ents, pend.name),
                   !.scr = fs.scr \cup
                           {DirEntry(ScratchName(j), pend.perm, pend.readme)}]

\* the scheduler writes the cluster script of the running job
EnvWriteScript(j) ==
    /\ fs.sub = "ok"
    /\ isdir(fs, ScratchPath(ScratchName(j)))
    /\ ~Exists(fs, SubPath(ScriptNameA(j)))
    /\ Cardinality(fs.ents) < MaxEntries
    /\ fs' = [fs EXCEPT !.ents = fs.ents \cup
                  {FileEntry(ScriptNameA(j), TRUE,
                             CdLine(ScratchName(j)))}]

\* the job finishes: the scratch directory is copied to sub_dir/<job_id> and
\* removed
EnvFinish(j) ==
    /\ fs.sub = "ok"
    /\ isdir(fs, ScratchPath(ScratchName(j)))
    /\ ~Exists(fs, SubPath(finished_job_foldername(j)))
    /\ Cardinality(fs.ents) < MaxEntries
    /\ LET scratch == NodeAt(fs, ScratchPath(ScratchName(j)))
       IN fs' = [fs EXCEPT
                   !.ents = fs.ents \cup
                            {DirEntry(finished_job_foldername(j),
                                      scratch.perm, scratch.readme)},
                   !.scr = Without(fs.scr, scratch.name)]

\* a user deletes a directory of the job
EnvDelete(j) ==
    \E p \in {SubPath(pending_job_foldername(j)),
               SubPath(finished_job_foldername(j)),
               ScratchPath(ScratchName(j))} :
        /\ isdir(fs, p)
        /\ fs' = IF p.root = "sub"
                 THEN [fs EXCEPT !.ents = Without(fs.ents, p.name)]
                 ELSE [fs EXCEPT !.scr = Without(fs.scr, p.name)]

\* a user removes the README of a directory of the job
EnvUnlink(j) ==
    \E p \in {SubPath(pending_job_foldername(j)),
               SubPath(finished_job_foldername(j)),
               ScratchPath(ScratchName(j))} :
        /\ isdir(fs, p)
        /\ NodeAt(fs, p).readme # "none"
        /\ LET dir == [NodeAt(fs, p) EXCEPT !.readme = "none"]
           IN fs' = IF p.root = "sub"
                    THEN [fs EXCEPT !.ents = Without(fs.ents, p.name)
                                             \cup {dir}]
                    ELSE [fs EXCEPT !.scr = Without(fs.scr, p.name)
                                            \cup {dir}]

(***************************************************************************)
(* diary/models.py: the Job records of the database.  A record carries     *)
(* the fields the two processes deal with; writer is history: the process  *)
(* whose save() wrote the record last.                                     *)
(***************************************************************************)
\* a field that holds no value
NoValue == <<>>
NoLog == [kind |-> "none", job_id |-> 0]
NoKeywords == [job_id |-> 0, main_name |-> NoValue, job_status |-> NoStatus,
               info |-> NoValue]

NoRecord ==
    [exists |-> FALSE, job_id |-> 0, job_status |-> NoStatus,
     job_dir |-> NoPath, sub_dir |-> "none", logfile_path |-> NoLog,
     readme_filename |-> "none", main_name |-> NoValue, solver |-> NoValue,
     sub_date |-> NoValue, info |-> NoValue, keyword_string |-> NoKeywords,
     updated |-> 0, writer |-> "none"]

\* Job._build_keyword_string: the words of the job_id, the main_name, the
\* info and the display of the job_status, among those of fields that
\* neither process assigns
build_keyword_string(job) ==
    [job_id |-> job.job_id, main_name |-> job.main_name,
     job_status |-> job.job_status, info |-> job.info]

\* the row that save() writes of the instance job at the time updated
Record(job, updated, writer) ==
    [exists |-> TRUE, job_id |-> job.job_id, job_status |-> job.job_status,
     job_dir |-> job.job_dir, sub_dir |-> job.sub_dir,
     logfile_path |-> job.logfile_path,
     readme_filename |-> job.readme_filename, main_name |-> job.main_name,
     solver |-> job.solver, sub_date |-> job.sub_date, info |-> job.info,
     keyword_string |-> build_keyword_string(job),
     updated |-> updated, writer |-> writer]

\* faulty variant: save() leaves the updated time as it was
Saved_SameMarker(job, writer) ==
    Record(job, store[job.job_id].updated, writer)

\* Job.save(): keyword_string is rebuilt, updated is set to timezone.now(),
\* later than every save before, and all the fields of the instance are
\* written
Saved(job, writer) ==
    Record(job, store[job.job_id].updated + 1, writer)

EmptyStore == [j \in JobIds |-> NoRecord]

\* faulty variant: a base run is added whether or not the database holds it
add_base_runs_Unchecked(table, records, job_id, base_runs_list) ==
    table \cup {<<job_id, base_runs_list[k]>> : k \in DOMAIN base_runs_list}

\* Job.add_base_runs: Job.objects.get(job_id=base_run_id) raises
\* ObjectDoesNotExist for an id the database does not hold; the others are
\* added to the table
add_base_runs(table, records, job_id, base_runs_list) ==
    table \cup {<<job_id, base_runs_list[k]>> :
                  k \in {i \in DOMAIN base_runs_list :
                           /\ base_runs_list[i] \in JobIds
                           /\ records[base_runs_list[i]].exists}}

(***************************************************************************)
(* utils/caefileio/readme.py                                               *)
(***************************************************************************)
\* os.listdir(job_dir) and the first name that matches "^README\..*\.README$"
get_readme_filename_from_job_dir(f, job_dir) ==
    IF ~Exists(f, job_dir)
    THEN [exc |-> "FileNotFoundError", name |-> "none"]
    ELSE LET node == NodeAt(f, job_dir)
         IN IF node.t = "file"
            THEN [exc |-> "NotADirectoryError", name |-> "none"]
            ELSE IF ~node.perm
            THEN [exc |-> "PermissionError", name |-> "none"]
            ELSE [exc |-> "none",
                  name |-> IF node.readme = "none" THEN "none" ELSE "README"]

REQUIRED_KEYS ==
    {"main_name", "base_runs", "username", "email", "info_block", "sub_date",
     "solver"}

\* the keys whose lines a README of the kind holds
ReadmeKeys(kind) ==
    IF kind \in {"full", "fullB"} THEN REQUIRED_KEYS
    ELSE IF kind = "partial" THEN REQUIRED_KEYS \ {"solver"}
    ELSE {}

\* readme_info = None
NoInfo == [none |-> TRUE, keys |-> {}, readme |-> "none"]

\* the ids the line "base-run (job-id):" of a README of the kind holds
ReadmeBaseRuns(kind) ==
    IF kind = "fullB" THEN <<12, 123, 12>> ELSE <<>>

\* readme_info[key]: the value the line of the key holds in that README
ValueOf(readme_info, key) ==
    IF key = "base_runs" THEN ReadmeBaseRuns(readme_info.readme)
    ELSE <<readme_info.readme, key>>

\* open(readme) and the scan of its lines; an empty dictionary is returned
\* as None, a Sub-Date that strptime cannot read raises ValueError; the
\* readme "dangling" is a symbolic link whose target is missing: os.listdir
\* names it and open() raises FileNotFoundError
get_job_info_from_readme(f, job_dir) ==
    IF ~Exists(f, job_dir)
    THEN [exc |-> "FileNotFoundError", info |-> NoInfo]
    ELSE LET node == NodeAt(f, job_dir)
         IN IF node.t = "file"
            THEN [exc |-> "NotADirectoryError", info |-> NoInfo]
            ELSE IF node.readme \in {"none", "dangling"}
            THEN [exc |-> "FileNotFoundError", info |-> NoInfo]
            ELSE IF ~node.perm \/ node.readme = "locked"
            THEN [exc |-> "PermissionError", info |-> NoInfo]
            ELSE IF node.readme = "baddate"
            THEN [exc |-> "ValueError", info |-> NoInfo]
            ELSE [exc |-> "none",
                  info |-> [none |-> ReadmeKeys(node.readme) = {},
                            keys |-> ReadmeKeys(node.readme),
                            readme |-> node.readme]]

(***************************************************************************)
(* utils/jobinfo/poll.py                                                   *)
(***************************************************************************)
\* timedelta(hours=24)
recent_limit == 24

\* an object handed to is_recent: <<>> for None, <<h>> for the datetime h
\* hours before datetime.now() (after it if h is negative), and
\* <<class, value>> for an object of another class
type(object) ==
    IF object = <<>> THEN "NoneType"
    ELSE IF Len(object) = 1 THEN "datetime"
    ELSE object[1]

\* faulty variant: a time that is still to come is not recent
is_recent_PastOnly(datetime_obj) ==
    IF type(datetime_obj) = "datetime"
    THEN 0 <= datetime_obj[1] /\ datetime_obj[1] <= recent_limit
    ELSE FALSE

\* delta = now - datetime_obj; delta <= recent_limit
is_recent(datetime_obj) ==
    IF type(datetime_obj) = "datetime"
    THEN LET delta == datetime_obj[1]
         IN IF delta <= recent_limit THEN TRUE ELSE FALSE
    ELSE FALSE

\* readme_dict.keys() of None raises AttributeError
required_keys_avaiable(readme_dict) ==
    [exc |-> IF readme_dict.none THEN "AttributeError" ELSE "none",
     value |-> ~readme_dict.none /\ REQUIRED_KEYS \subseteq readme_dict.keys]

\* what the environment did last while the call ran
NoEvent == [ev |-> "none", at |-> "none", job_status |-> NoStatus]

\* what the running iteration of the race-recovery loop has obtained so far
NoSeen ==
    [job_status |-> NoStatus, job_dir |-> NoPath, readme_filename |-> "unset"]

\* job = Job() and the locals of start_job_creation_process_from_joblogfile;
\* listing and reading keep the exception of the last README lookup and read,
\* seen is history: the values the running iteration has obtained
IdleIngest ==
    [pc |-> "idle", joblogfile |-> "none", logfile_path |-> NoLog,
     job_id |-> 0, sub_dir |-> "none", log_date |-> <<>>,
     job_status |-> NoStatus, job_dir |-> NoPath, readme_filename |-> "none",
     readme_info |-> NoInfo, job_status_checked_counter |-> 0,
     listing |-> "unset", reading |-> "unset",
     result |-> "none", exc |-> "none", env |-> NoEvent, seen |-> NoSeen]

\* the joblogfiles handed to the call: missing, without job_number, without
\* sge_o_workdir, or complete with a submission_time or none
LogDates == {<<>>, <<recent_limit>>, <<recent_limit + 1>>}

Joblogfiles ==
    {[kind |-> "missing", job_id |-> 0, sub_dir |-> "none", log_date |-> <<>>],
     [kind |-> "noid", job_id |-> 0, sub_dir |-> "sub", log_date |-> <<>>]}
    \cup {[kind |-> "nosub", job_id |-> j, sub_dir |-> "none",
           log_date |-> <<>>] : j \in JobIds}
    \cup {[kind |-> "ok", job_id |-> j, sub_dir |-> "sub", log_date |-> d] :
             j \in JobIds, d \in LogDates}

\* the path of a joblogfile in the poll directory
LogPath(log) == [kind |-> log.kind, job_id |-> log.job_id]

ReturnFalse(job) == [job EXCEPT !.pc = "done", !.result = "false"]
Raise(job, exc) == [job EXCEPT !.pc = "crashed", !.exc = exc]

\* faulty variant: the check for an existing record is left out
RecordExists_Never(j) == FALSE

\* Job.objects.filter(pk=job.job_id).exists()
RecordExists(j) == store[j].exists

\* lines 149-174 and the first entry into the while loop; poll is left to
\* the caller
IngestBegin(log) ==
    /\ ing.pc = "idle"
    /\ LET job == [IdleIngest EXCEPT !.joblogfile = log.kind,
                                     !.logfile_path = LogPath(log),
                                     !.job_id = log.job_id,
                                     !.sub_dir = log.sub_dir,
                                     !.log_date = log.log_date]
       IN IF log.kind \in {"missing", "noid", "nosub"}
          THEN ing' = ReturnFalse(job) /\ UNCHANGED rs
          ELSE IF RecordExists(job.job_id)
          THEN ing' = ReturnFalse(job) /\ UNCHANGED rs
          ELSE /\ ing' = [job EXCEPT !.pc = "resolve"]
               /\ rs' = [rs EXCEPT !["ingest"] =
                           CallResolver(fs, job.job_id,
                                        is_recent(job.log_date))]
    /\ UNCHANGED <<fs, first, store, upd, kill_now, call, base_runs>>

\* job_status_checked_counter is tested against 0 and logged (lines 183,
\* 197-199); the model counts the checks up to MaxChecked
MaxChecked == 3

\* faulty variant: a status found earlier is kept, the directory is renewed
TakenOver_KeepsStatus(job, ret) ==
    [job EXCEPT !.job_status = IF @ = NoStatus THEN ret.job_status ELSE @,
                !.job_dir = ret.job_dir,
                !.job_status_checked_counter =
                    IF @ < MaxChecked THEN @ + 1 ELSE @,
                !.seen = [NoSeen EXCEPT !.job_status = ret.job_status,
                                        !.job_dir = ret.job_dir]]

\* lines 191-196: job.job_status, job.job_dir = the pair returned, and the
\* counter
TakenOver(job, ret) ==
    [job EXCEPT !.job_status = ret.job_status,
                !.job_dir = ret.job_dir,
                !.job_status_checked_counter =
                    IF @ < MaxChecked THEN @ + 1 ELSE @,
                !.seen = [NoSeen EXCEPT !.job_status = ret.job_status,
                                        !.job_dir = ret.job_dir]]

\* lines 191-211: the value returned by the resolver is taken over
IngestAfterResolve ==
    /\ ing.pc = "resolve"
    /\ rs["ingest"].pc = "done"
    /\ LET ret == rs["ingest"].ret
           job == TakenOver(ing, ret)
       IN ing' = IF job.job_status = JOB_STATUS_NONE \/ job.job_dir = NoPath
                 THEN ReturnFalse(job)
                 ELSE [job EXCEPT !.pc = "lookup"]
    /\ rs' = [rs EXCEPT !["ingest"] = IdleResolver]
    /\ UNCHANGED <<fs, first, store, upd, kill_now, poll, call, base_runs>>

\* an exception of the resolver is not caught
IngestResolveRaised ==
    /\ ing.pc = "resolve"
    /\ rs["ingest"].pc = "raised"
    /\ ing' = Raise(ing, "IsADirectoryError")
    /\ UNCHANGED <<fs, rs, first, store, upd, kill_now, poll, call, base_runs>>

\* faulty variant: a job_dir that is gone ends the call like a missing README
LookupOutcome_NoRecheck(res) ==
    IF res.exc \in {"PermissionError", "FileNotFoundError"} THEN "false"
    ELSE IF res.exc # "none" THEN "raise"
    ELSE IF res.name = "none" THEN "false"
    ELSE "go on"

\* lines 213-232: what the call does with the outcome of the README lookup
LookupOutcome(res) ==
    IF res.exc = "PermissionError" THEN "false"
    ELSE IF res.exc = "FileNotFoundError" THEN "again"
    ELSE IF res.exc # "none" THEN "raise"
    ELSE IF res.name = "none" THEN "false"
    ELSE "go on"

\* lines 213-232
IngestLookup ==
    /\ ing.pc = "lookup"
    /\ LET res == get_readme_filename_from_job_dir(fs, ing.job_dir)
           job == [ing EXCEPT !.listing = res.exc,
                              !.readme_filename =
                                  IF res.exc = "none" THEN res.name ELSE @,
                              !.seen.readme_filename =
                                  IF res.exc = "none" THEN res.name ELSE @]
           outcome == LookupOutcome(res)
       IN IF outcome = "again"
          THEN /\ ing' = [job EXCEPT !.pc = "resolve"]
               /\ rs' = [rs EXCEPT !["ingest"] =
                           CallResolver(fs, job.job_id,
                                        is_recent(job.log_date))]
          ELSE /\ ing' = IF outcome = "false" THEN ReturnFalse(job)
                         ELSE IF outcome = "raise" THEN Raise(job, res.exc)
                         ELSE [job EXCEPT !.pc = "parse"]
               /\ UNCHANGED rs
    /\ UNCHANGED <<fs, first, store, upd, kill_now, poll, call, base_runs>>

\* faulty variant: a README that is gone ends the call like one that cannot
\* be read
ReadOutcome_NoRecheck(res) ==
    IF res.exc \in {"PermissionError", "FileNotFoundError"} THEN "false"
    ELSE IF res.exc # "none" THEN "raise"
    ELSE IF required_keys_avaiable(res.info).exc # "none" THEN "raise"
    ELSE IF ~required_keys_avaiable(res.info).value THEN "false"
    ELSE "save"

\* lines 235-256: what the call does with the outcome of reading the README
ReadOutcome(res) ==
    IF res.exc = "PermissionError" THEN "false"
    ELSE IF res.exc = "FileNotFoundError" THEN "again"
    ELSE IF res.exc # "none" THEN "raise"
    ELSE IF required_keys_avaiable(res.info).exc # "none" THEN "raise"
    ELSE IF ~required_keys_avaiable(res.info).value THEN "false"
    ELSE "save"

\* Job.get_timezone_aware_datetime: the naive datetime of the README is
\* made aware in the time zone of the settings
get_timezone_aware_datetime(datetime_string) ==
    IF datetime_string = NoValue THEN NoValue
    ELSE datetime_string \o <<"TIME_ZONE">>

\* faulty variant: the solver is taken from the line of the main name
JobOf_SolverFromMainName(job) ==
    [job_id |-> job.job_id, job_status |-> job.job_status,
     job_dir |-> job.job_dir, sub_dir |-> job.sub_dir,
     logfile_path |-> job.logfile_path,
     readme_filename |-> job.readme_filename,
     main_name |-> ValueOf(job.readme_info, "main_name"),
     solver |-> ValueOf(job.readme_info, "main_name"),
     sub_date |-> get_timezone_aware_datetime(
                      ValueOf(job.readme_info, "sub_date")),
     info |-> ValueOf(job.readme_info, "info_block")]

\* lines 259-263: the instance that is saved
JobOf(job) ==
    [job_id |-> job.job_id, job_status |-> job.job_status,
     job_dir |-> job.job_dir, sub_dir |-> job.sub_dir,
     logfile_path |-> job.logfile_path,
     readme_filename |-> job.readme_filename,
     main_name |-> ValueOf(job.readme_info, "main_name"),
     solver |-> ValueOf(job.readme_info, "solver"),
     sub_date |-> get_timezone_aware_datetime(
                      ValueOf(job.readme_info, "sub_date")),
     info |-> ValueOf(job.readme_info, "info_block")]

\* lines 235-272: the README is read; with all required keys the loop ends,
\* the job is saved (full_clean refuses a primary key that exists) and its
\* base runs are added
IngestParse ==
    /\ ing.pc = "parse"
    /\ LET res == get_job_info_from_readme(fs, ing.job_dir)
           job == [ing EXCEPT !.reading = res.exc,
                              !.readme_info =
                                  IF res.exc = "none" THEN res.info ELSE @]
           outcome == ReadOutcome(res)
       IN IF outcome = "again"
          THEN /\ ing' = [job EXCEPT !.pc = "resolve"]
               /\ rs' = [rs EXCEPT !["ingest"] =
                           CallResolver(fs, job.job_id,
                                        is_recent(job.log_date))]
               /\ UNCHANGED <<store, base_runs>>
          ELSE IF outcome = "save" /\ ~store[job.job_id].exists
          THEN /\ store' = [store EXCEPT ![job.job_id] =
                                  Saved(JobOf(job), "ingest")]
               /\ base_runs' =
                     add_base_runs(base_runs, store', job.job_id,
                                   ValueOf(job.readme_info, "base_runs"))
               /\ ing' = [job EXCEPT !.pc = "done", !.result = "true"]
               /\ UNCHANGED rs
          ELSE /\ ing' = IF outcome = "false" THEN ReturnFalse(job)
                         ELSE IF outcome = "save"
                         THEN Raise(job, "ValidationError")
                         ELSE IF res.exc # "none" THEN Raise(job, res.exc)
                         ELSE Raise(job, required_keys_avaiable(res.info).exc)
               /\ UNCHANGED <<rs, store, base_runs>>
    /\ UNCHANGED <<fs, first, upd, kill_now, poll, call>>

\* the call has returned: main goes on to the next joblogfile
IngestReturn ==
    /\ ing.pc = "done"
    /\ ing' = IdleIngest
    /\ UNCHANGED <<fs, rs, first, store, upd, kill_now, poll, call, base_runs>>

(***************************************************************************)
(* utils/jobinfo/update.py                                                 *)
(***************************************************************************)
\* pc: "idle" at the test of the while loop of main, "loop" and "resolve"
\* within the pass, "done" when the pass has returned, "sleep" in the loop of
\* the timeout, "crashed" when an exception left the pass, "raised" when main
\* has raised it again, "exited" after the while loop; slept counts the
\* seconds slept, logged tells that main has logged the exception; late is
\* history: the calls of update_status_of_job begun with kill_now set
IdleUpdate ==
    [pc |-> "idle", jobs_list |-> <<>>, i |-> 0, fetched |-> {},
     called |-> {}, late |-> 0, slept |-> 0, logged |-> FALSE]

\* faulty variant: jobs without a status are selected as well
Q_lookup_WithNone(rec) ==
    rec.exists /\ rec.job_status \in {JOB_STATUS_PENDING, JOB_STATUS_RUNNING,
                                       JOB_STATUS_NONE}

\* Q(job_status=PENDING) | Q(job_status=RUNNING)
Q_lookup(rec) ==
    rec.exists /\ rec.job_status \in {JOB_STATUS_PENDING, JOB_STATUS_RUNNING}

\* the Job instance the queryset builds of a record
Instance(j, rec) ==
    [job_id |-> rec.job_id, job_status |-> rec.job_status,
     job_dir |-> rec.job_dir, sub_dir |-> rec.sub_dir,
     logfile_path |-> rec.logfile_path,
     readme_filename |-> rec.readme_filename, main_name |-> rec.main_name,
     solver |-> rec.solver, sub_date |-> rec.sub_date, info |-> rec.info]

\* lines 65-74: "if jobs_list:" evaluates the queryset, once; the records come
\* in the order the database returns them.  fetched and called are history:
\* the ids selected, the ids passed to update_status_of_job
UpdFetch ==
    /\ upd.pc = "idle"
    /\ ~kill_now
    /\ LET unfinished == {j \in JobIds : Q_lookup(store[j])}
       IN \E order \in Orders(unfinished) :
             upd' = [IdleUpdate EXCEPT
                       !.pc = IF unfinished = {} THEN "done" ELSE "loop",
                       !.jobs_list = [k \in 1..Cardinality(unfinished) |->
                                        Instance(order[k], store[order[k]])],
                       !.i = 1,
                       !.fetched = unfinished]
    /\ UNCHANGED <<fs, rs, first, store, ing, kill_now, poll, call, base_runs>>

\* an object that is no Job carries its class; a Job instance carries its
\* fields
ClassOf(x) == IF "class" \in DOMAIN x THEN x.class ELSE "Job"

\* isinstance(x, cls); bool is a subclass of int
isinstance(x, cls) ==
    \/ ClassOf(x) = cls
    \/ ClassOf(x) = "bool" /\ cls = "int"

\* lines 76-81: the for loop ends after the last job, or when kill_now is
\* set after a job
LoopEnds(u, kill) == kill \/ u.i = Len(u.jobs_list)

\* faulty variant: an input that is no Job raises
NotAJob_Raises(u, kill) == [u EXCEPT !.pc = "crashed"]

\* lines 111-112 and 79-81: logger.error("Input is not a Job object!"), the
\* call returns; then the killer is asked
NotAJob(u, kill) ==
    IF LoopEnds(u, kill)
    THEN [u EXCEPT !.pc = "done"]
    ELSE [u EXCEPT !.pc = "loop", !.i = @ + 1]

\* lines 76-78, 94-100: update_status_of_job(job) calls the resolver if job
\* is a Job
UpdCall ==
    /\ upd.pc = "loop"
    /\ LET job == upd.jobs_list[upd.i]
           begun == [upd EXCEPT !.late = IF kill_now THEN @ + 1 ELSE @]
       IN IF isinstance(job, "Job")
          THEN /\ upd' = [begun EXCEPT !.pc = "resolve",
                                       !.called = @ \cup {job.job_id}]
               /\ rs' = [rs EXCEPT !["update"] =
                           CallResolver(fs, job.job_id, TRUE)]
          ELSE /\ upd' = NotAJob(begun, kill_now)
               /\ rs' = rs
    /\ UNCHANGED <<fs, first, store, ing, kill_now, poll, call, base_runs>>

\* faulty variant: the root of the job_dir found is taken for the sub_dir
UpdatedJob_MovesSubDir(job, ret) ==
    [job EXCEPT !.job_status = ret.job_status, !.job_dir = ret.job_dir,
                !.sub_dir = ret.job_dir.root]

\* faulty variant: only the new status reaches the instance
UpdatedJob_StatusOnly(job, ret) ==
    [job EXCEPT !.job_status = ret.job_status]

\* line 99: job.job_status, job.job_dir = ...
UpdatedJob(job, ret) ==
    [job EXCEPT !.job_status = ret.job_status, !.job_dir = ret.job_dir]

\* lines 101-107 and 79-81: the job is saved if its status changed; then
\* the killer is asked
UpdSave ==
    /\ upd.pc = "resolve"
    /\ rs["update"].pc = "done"
    /\ LET before == upd.jobs_list[upd.i]
           job == UpdatedJob(before, rs["update"].ret)
       IN store' = IF job.job_status # before.job_status
                   THEN [store EXCEPT ![job.job_id] = Saved(job, "update")]
                   ELSE store
    /\ upd' = IF LoopEnds(upd, kill_now)
              THEN [upd EXCEPT !.pc = "done"]
              ELSE [upd EXCEPT !.pc = "loop", !.i = @ + 1]
    /\ rs' = [rs EXCEPT !["update"] = IdleResolver]
    /\ UNCHANGED <<fs, first, ing, kill_now, poll, call, base_runs>>

\* an exception of the resolver ends the pass and the process
UpdRaised ==
    /\ upd.pc = "resolve"
    /\ rs["update"].pc = "raised"
    /\ upd' = [upd EXCEPT !.pc = "crashed"]
    /\ UNCHANGED <<fs, rs, first, store, ing, kill_now, poll, call, base_runs>>

\* settings.UPDATE_TIMEOUT_SECONDS
UPDATE_TIMEOUT_SECONDS == 10

\* faulty variant: the timeout is slept after an exception as well
Sleeping_AfterException(u, kill) ==
    /\ u.pc \in {"done", "sleep", "crashed"}
    /\ ~kill
    /\ u.slept < UPDATE_TIMEOUT_SECONDS

\* main, lines 45-48: the pass has returned and the for loop of the timeout
\* goes on
Sleeping(u, kill) ==
    /\ u.pc \in {"done", "sleep"}
    /\ ~kill
    /\ u.slept < UPDATE_TIMEOUT_SECONDS

\* main, line 48: time.sleep(1)
UpdSleep ==
    /\ Sleeping(upd, kill_now)
    /\ upd' = [IdleUpdate EXCEPT !.pc = "sleep", !.slept = upd.slept + 1]
    /\ UNCHANGED <<fs, rs, first, store, ing, kill_now, poll, call, base_runs>>

\* main, lines 45-47: the timeout is over or kill_now is set: back to the
\* test of the while loop
UpdNextPass ==
    /\ upd.pc \in {"done", "sleep"}
    /\ ~Sleeping(upd, kill_now)
    /\ upd' = IdleUpdate
    /\ UNCHANGED <<fs, rs, first, store, ing, kill_now, poll, call, base_runs>>

\* main, lines 36 and 53-55: kill_now ends the while loop
UpdExit ==
    /\ upd.pc = "idle"
    /\ kill_now
    /\ upd' = [upd EXCEPT !.pc = "exited"]
    /\ UNCHANGED <<fs, rs, first, store, ing, kill_now, poll, call, base_runs>>

\* main, lines 49-51: the exception is logged and raised again
UpdExcept ==
    /\ upd.pc = "crashed"
    /\ upd' = [upd EXCEPT !.pc = "raised", !.logged = TRUE]
    /\ UNCHANGED <<fs, rs, first, store, ing, kill_now, poll, call, base_runs>>

\* utils/graceful_killer.py: exit_gracefully
Kill ==
    /\ ~kill_now
    /\ kill_now' = TRUE
    /\ UNCHANGED <<fs, rs, first, store, ing, upd, poll, call, base_runs>>

(***************************************************************************)
(* utils/jobinfo/poll.py: main, and utils/caefileio/joblogfile.py          *)
(***************************************************************************)
\* settings.POLL_TIMEOUT_SECONDS
POLL_TIMEOUT_SECONDS == 5

\* "^[\d]{4}-[\d]{2}-[\d]{2}__[\d]{2}:[\d]{2}:[\d]{2}-\d+\.log$"
is_joblogfilename(basename) ==
    /\ Len(basename) >= 26
    /\ \A k \in {1, 2, 3, 4, 6, 7, 9, 10, 13, 14, 16, 17, 19, 20} :
          basename[k] \in Digit
    /\ basename[5] = "-" /\ basename[8] = "-"
    /\ basename[11] = "_" /\ basename[12] = "_"
    /\ basename[15] = ":" /\ basename[18] = ":"
    /\ basename[21] = "-"
    /\ \A k \in 22..(Len(basename) - 4) : basename[k] \in Digit
    /\ SubSeq(basename, Len(basename) - 3, Len(basename))
          = <<".", "l", "o", "g">>

\* the characters of the file names, in the order of their codes
Ascii ==
    <<"-", ".", "0", "1", "2", "3", "4", "5", "6", "7", "8", "9", ":", "_",
      "a", "b", "c", "d", "e", "f", "g", "h", "i", "j", "k", "l", "m", "n",
      "o", "p", "q", "r", "s", "t", "u", "v", "w", "x", "y", "z">>
Code(c) == CHOOSE k \in 1..Len(Ascii) : Ascii[k] = c

\* a < b, as Python compares strings
Less(a, b) ==
    \E k \in 1..(Len(a) + 1) :
        /\ k <= Len(b)
        /\ SubSeq(a, 1, k - 1) = SubSeq(b, 1, k - 1)
        /\ k <= Len(a) => Code(a[k]) < Code(b[k])

\* sorted(added): the paths differ in the file name only
sorted(S) ==
    CHOOSE o \in Orders(S) :
        \A k, l \in 1..Cardinality(S) : k < l => Less(o[k], o[l])

\* pc: "idle" at the test of the while loop, "for" in the loop over the added
\* files, "call" while start_job_creation_process_from_joblogfile runs,
\* "file" after the test of kill_now for a file, "sleep" in the loop of the
\* timeout, "crashed" when os.listdir(POLL_DIR)
\* raised, "raised" when main has raised the exception again, "exited" after
\* the while loop.  dir holds the files of POLL_DIR, access what os.listdir
\* meets there; logged tells that main has logged the exception; late is
\* history: the calls for a joblogfile begun with kill_now set; prev and
\* handed are history too: the names the pass before listed, and the names
\* passed to start_job_creation_process_from_joblogfile so far
IdlePoll ==
    [pc |-> "idle", kill_now |-> FALSE, access |-> "ok", dir |-> {},
     old |-> {}, allfiles |-> {}, added |-> <<>>, i |-> 0, late |-> 0,
     slept |-> 0, logged |-> FALSE, prev |-> {}, handed |-> {}]

FileNames(p) == {f.name : f \in p.dir}
FileAt(p, name) == CHOOSE f \in p.dir : f.name = name

\* lines 77-81: the while test passes, POLL_DIR is listed
PollList ==
    /\ poll.pc = "idle"
    /\ ~poll.kill_now
    /\ poll' = IF poll.access # "ok"
               THEN [poll EXCEPT !.pc = "crashed"]
               ELSE [poll EXCEPT
                       !.pc = "for",
                       !.allfiles = FileNames(poll),
                       !.added = sorted(FileNames(poll) \ poll.old),
                       !.i = 1]
    /\ UNCHANGED <<fs, rs, first, store, ing, upd, kill_now, call, base_runs>>

\* faulty variant: old stays what it was
OldAfterPass_Keeps(p) == p.old

\* line 97: old = allfiles
OldAfterPass(p) == p.allfiles

\* faulty variant: kill_now is not tested before a file
BreakFor_Never(p) == FALSE

\* lines 86-87: if graceful_killer.kill_now: break
BreakFor(p) == p.kill_now

\* lines 82-87 and 97: the next added file: kill_now breaks the loop
PollCheck ==
    /\ poll.pc = "for"
    /\ poll.i <= Len(poll.added)
    /\ poll' = IF BreakFor(poll)
               THEN [poll EXCEPT !.pc = "sleep", !.old = OldAfterPass(poll),
                                 !.prev = poll.allfiles]
               ELSE [poll EXCEPT !.pc = "file"]
    /\ UNCHANGED <<fs, rs, first, store, ing, upd, kill_now, call, base_runs>>

\* lines 88-96: a joblogfile that exists is processed, any other file is
\* passed over
PollFile ==
    /\ poll.pc = "file"
    /\ LET file == poll.added[poll.i]
       IN \/ /\ is_joblogfilename(file) /\ file \in FileNames(poll)
             /\ IngestBegin(FileAt(poll, file).log)
             /\ poll' = [poll EXCEPT
                           !.pc = "call",
                           !.late = IF poll.kill_now THEN @ + 1 ELSE @,
                           !.handed = @ \cup {file}]
          \/ /\ ~(is_joblogfilename(file) /\ file \in FileNames(poll))
             /\ poll' = [poll EXCEPT !.pc = "for", !.i = @ + 1]
             /\ UNCHANGED <<fs, rs, first, store, ing, upd, kill_now,
                             call, base_runs>>

\* line 93: the call has returned
PollReturned ==
    /\ poll.pc = "call"
    /\ ing.pc = "done"
    /\ ing' = IdleIngest
    /\ poll' = [poll EXCEPT !.pc = "for", !.i = @ + 1]
    /\ UNCHANGED <<fs, rs, first, store, upd, kill_now, call, base_runs>>

\* line 97: the loop over the added files is through
PollForEnd ==
    /\ poll.pc = "for"
    /\ poll.i > Len(poll.added)
    /\ poll' = [poll EXCEPT !.pc = "sleep", !.old = OldAfterPass(poll),
                            !.prev = poll.allfiles]
    /\ UNCHANGED <<fs, rs, first, store, ing, upd, kill_now, call, base_runs>>

\* faulty variant: the timeout is slept through although kill_now is set
PollSleeping_IgnoresKill(p) ==
    /\ p.pc = "sleep"
    /\ p.slept < POLL_TIMEOUT_SECONDS

\* lines 101-104: the for loop of the timeout goes on
PollSleeping(p) ==
    /\ p.pc = "sleep"
    /\ ~p.kill_now
    /\ p.slept < POLL_TIMEOUT_SECONDS

\* line 104: time.sleep(1)
PollSleep ==
    /\ PollSleeping(poll)
    /\ poll' = [poll EXCEPT !.slept = @ + 1]
    /\ UNCHANGED <<fs, rs, first, store, ing, upd, kill_now, call, base_runs>>

\* lines 101-103: the timeout is over or kill_now is set: back to the test
\* of the while loop
PollNextPass ==
    /\ poll.pc = "sleep"
    /\ ~PollSleeping(poll)
    /\ poll' = [poll EXCEPT !.pc = "idle", !.slept = 0, !.added = <<>>,
                            !.allfiles = {}, !.i = 0]
    /\ UNCHANGED <<fs, rs, first, store, ing, upd, kill_now, call, base_runs>>

\* lines 77 and 109-111: kill_now ends the while loop
PollExit ==
    /\ poll.pc = "idle"
    /\ poll.kill_now
    /\ poll' = [poll EXCEPT !.pc = "exited"]
    /\ UNCHANGED <<fs, rs, first, store, ing, upd, kill_now, call, base_runs>>

\* an exception has left the pass: os.listdir(POLL_DIR) raised, or the call
\* for a joblogfile did
Escaped(p, job) ==
    p.pc = "crashed" \/ (p.pc = "call" /\ job.pc = "crashed")

\* lines 105-107: the exception is logged and raised again
PollExcept ==
    /\ Escaped(poll, ing)
    /\ poll' = [poll EXCEPT !.pc = "raised", !.logged = TRUE]
    /\ UNCHANGED <<fs, rs, first, store, ing, upd, kill_now, call, base_runs>>

\* utils/graceful_killer.py: exit_gracefully in the polling process
PollKill ==
    /\ ~poll.kill_now
    /\ poll' = [poll EXCEPT !.kill_now = TRUE]
    /\ UNCHANGED <<fs, rs, first, store, ing, upd, kill_now, call, base_runs>>

\* sub_dir is taken away (permissions, unmount, removal) or given back
EnvSubDir ==
    \E access \in {"ok"} \cup ListingErrors :
        /\ access # fs.sub
        /\ fs' = [fs EXCEPT !.sub = access]

(***************************************************************************)
(* SpecResolve: one call of get_job_status_and_job_dir_from_sub_dir on any *)
(* content of sub_dir, the filesystem changing while the call runs         *)
(***************************************************************************)
\* the job the call is about: the larger id
ResolveJob == CHOOSE j \in JobIds : \A k \in JobIds : j >= k

\* first lines a cluster script may hold: the scheduler's line, the line
\* without the newline, with a blank before the newline, without the "*",
\* with two blanks after cd, and without a path
FirstLines(name) ==
    {CdLine(name),
     <<"c", "d", " ">> \o ScratchRoot \o name \o <<"*">>,
     <<"c", "d", " ">> \o ScratchRoot \o name \o <<"*", " ", "\n">>,
     <<"c", "d", " ">> \o ScratchRoot \o name \o <<"\n">>,
     <<"c", "d", " ", " ">> \o ScratchRoot \o name \o <<"*", "\n">>,
     <<"c", "d", "\n">>}

\* the entries sub_dir may hold for job j when the call starts
CandidateEntries(j) ==
    {DirEntry(finished_job_foldername(j), TRUE, "full"),
     FileEntry(finished_job_foldername(j), TRUE, <<>>),
     DirEntry(pending_job_foldername(j), TRUE, "full"),
     FileEntry(pending_job_foldername(j), TRUE, <<>>),
     FileEntry(ScriptNameA(j), FALSE, CdLine(ScratchName(j))),
     DirEntry(ScriptNameA(j), TRUE, "none"),
     FileEntry(ScriptNameB(j), TRUE, CdLine(ScratchName(j))),
     FileEntry(ScriptNameB(j), TRUE, <<>>),
     DirEntry(RenamedNameA(j), TRUE, "full"),
     FileEntry(RenamedNameA(j), TRUE, <<>>),
     DirEntry(RenamedNameB(j), TRUE, "full"),
     FileEntry(RenamedNameB(j), TRUE, <<>>)}
    \cup {FileEntry(ScriptNameA(j), TRUE, line) :
             line \in FirstLines(ScratchName(j))}

UniqueNames(S) == \A e1, e2 \in S : e1.name = e2.name => e1 = e2

CandidateScratch(j) ==
    {{}, {DirEntry(ScratchName(j), TRUE, "full")},
     {FileEntry(ScratchName(j), TRUE, <<>>)}}

InitFilesystems(j) ==
    {[sub |-> "ok", ents |-> E, scr |-> S] :
        E \in {X \in SUBSET CandidateEntries(j) :
                  Cardinality(X) <= MaxEntries /\ UniqueNames(X)},
        S \in CandidateScratch(j)}
    \cup {[sub |-> err, ents |-> {}, scr |-> {}] : err \in ListingErrors}

vars ==
    <<fs, rs, first, store, ing, upd, kill_now, poll, call, base_runs>>

InitResolve ==
    /\ fs \in InitFilesystems(ResolveJob)
    /\ \E recent \in BOOLEAN :
          rs = [c \in Callers |->
                  IF c = "direct" THEN CallResolver(fs, ResolveJob, recent)
                  ELSE IdleResolver]
    /\ first = IdleResolver
    /\ store = EmptyStore
    /\ ing = IdleIngest
    /\ upd = IdleUpdate
    /\ kill_now = FALSE
    /\ call = NoCall
    /\ base_runs = {}
    /\ poll = IdlePoll

EnvDuringResolve ==
    /\ rs["direct"].pc = "run"
    /\ \/ EnvDequeue(ResolveJob)
       \/ EnvWriteScript(ResolveJob)
       \/ EnvFinish(ResolveJob)
       \/ EnvDelete(ResolveJob)
    /\ UNCHANGED <<rs, first, store, ing, upd, kill_now, poll, call, base_runs>>

NextResolve ==
    \/ RAttempt("direct")
          /\ UNCHANGED <<fs, first, store, ing, upd, kill_now, poll, call,
                          base_runs>>
    \/ RReturn("direct")
          /\ UNCHANGED <<fs, first, store, ing, upd, kill_now, poll, call,
                          base_runs>>
    \/ EnvDuringResolve

SpecResolve == InitResolve /\ [][NextResolve]_vars

(***************************************************************************)
(* SpecRenamed: one call on a sub_dir with renamed folders of the job,     *)
(* files named like them, and a folder whose name begins like the pending  *)
(* folder                                                                  *)
(***************************************************************************)
PendingRenamedName(j) == pending_job_foldername(j) \o RenamedTailA

RenamedCandidates(j) ==
    {DirEntry(finished_job_foldername(j), TRUE, "full"),
     DirEntry(pending_job_foldername(j), TRUE, "full"),
     FileEntry(ScriptNameB(j), TRUE, CdLine(ScratchName(j))),
     DirEntry(RenamedNameA(j), TRUE, "full"),
     FileEntry(RenamedNameA(j), TRUE, <<>>),
     DirEntry(RenamedNameB(j), TRUE, "full"),
     FileEntry(RenamedNameB(j), TRUE, <<>>),
     DirEntry(PendingRenamedName(j), TRUE, "full")}

RenamedFilesystems(j) ==
    {[sub |-> "ok", ents |-> E, scr |-> S] :
        E \in {X \in SUBSET RenamedCandidates(j) :
                  Cardinality(X) <= MaxEntries /\ UniqueNames(X)},
        S \in CandidateScratch(j)}

InitRenamed ==
    /\ fs \in RenamedFilesystems(ResolveJob)
    /\ \E recent \in BOOLEAN :
          rs = [c \in Callers |->
                  IF c = "direct" THEN CallResolver(fs, ResolveJob, recent)
                  ELSE IdleResolver]
    /\ first = IdleResolver
    /\ store = EmptyStore
    /\ ing = IdleIngest
    /\ upd = IdleUpdate
    /\ kill_now = FALSE
    /\ call = NoCall
    /\ base_runs = {}
    /\ poll = IdlePoll

SpecRenamed == InitRenamed /\ [][NextResolve]_vars

(***************************************************************************)
(* SpecOtherJob: one call for the job with the shorter id on a sub_dir     *)
(* that holds only what the job with the longer id left there, while that  *)
(* other job moves on                                                      *)
(***************************************************************************)
\* the job the call is about: str(OtherJobCall) is a proper prefix of
\* str(ResolveJob)
OtherJobCall == CHOOSE j \in JobIds : \A k \in JobIds : j <= k

InitOtherJob ==
    /\ fs \in InitFilesystems(ResolveJob)
    /\ \E recent \in BOOLEAN :
          rs = [c \in Callers |->
                  IF c = "direct" THEN CallResolver(fs, OtherJobCall, recent)
                  ELSE IdleResolver]
    /\ first = IdleResolver
    /\ store = EmptyStore
    /\ ing = IdleIngest
    /\ upd = IdleUpdate
    /\ kill_now = FALSE
    /\ call = NoCall
    /\ base_runs = {}
    /\ poll = IdlePoll

SpecOtherJob == InitOtherJob /\ [][NextResolve]_vars

(***************************************************************************)
(* SpecOutage: one call while sub_dir is taken away and given back         *)
(***************************************************************************)
EnvOutage ==
    /\ rs["direct"].pc = "run"
    /\ EnvSubDir
    /\ UNCHANGED <<rs, first, store, ing, upd, kill_now, poll, call, base_runs>>

NextOutage ==
    \/ RAttempt("direct")
          /\ UNCHANGED <<fs, first, store, ing, upd, kill_now, poll, call,
                          base_runs>>
    \/ RReturn("direct")
          /\ UNCHANGED <<fs, first, store, ing, upd, kill_now, poll, call,
                          base_runs>>
    \/ EnvOutage

SpecOutage == InitResolve /\ [][NextOutage]_vars

(***************************************************************************)
(* SpecTwice: two calls with the same arguments, one after the other, on   *)
(* a filesystem that does not change                                       *)
(***************************************************************************)
RCallAgain ==
    /\ rs["direct"].pc \in {"done", "raised"}
    /\ first.pc = "idle"
    /\ first' = rs["direct"]
    /\ rs' = [rs EXCEPT !["direct"] =
                 CallResolver(fs, rs["direct"].job_id, rs["direct"].recent)]
    /\ UNCHANGED <<fs, store, ing, upd, kill_now, poll, call, base_runs>>

NextTwice ==
    \/ RAttempt("direct")
          /\ UNCHANGED <<fs, first, store, ing, upd, kill_now, poll, call,
                          base_runs>>
    \/ RReturn("direct")
          /\ UNCHANGED <<fs, first, store, ing, upd, kill_now, poll, call,
                          base_runs>>
    \/ RCallAgain

SpecTwice == InitResolve /\ [][NextTwice]_vars

(***************************************************************************)
(* Spec: the polling process and the update process run side by side on    *)
(* one sub_dir while the scheduler moves the job through its states        *)
(***************************************************************************)
\* the folder of a submitted job, with any README and any permission
JobFolders(name) ==
    {DirEntry(name, perm, readme) :
        perm \in BOOLEAN, readme \in ReadmeKinds \cup {"none"}}

\* sub_dir when the processes start: the job is pending, its folder is gone,
\* sub_dir cannot be listed, or a directory bears the name of a cluster script
SystemFilesystems(j) ==
    {[sub |-> "ok", ents |-> {d}, scr |-> {}] :
        d \in JobFolders(pending_job_foldername(j))}
    \cup {[sub |-> "ok", ents |-> {}, scr |-> {}],
          [sub |-> "PermissionError", ents |-> {}, scr |-> {}],
          [sub |-> "ok", ents |-> {DirEntry(ScriptNameA(j), TRUE, "none")},
           scr |-> {}]}

\* the instance an earlier call of the polling process saved for job j
EarlierJob(j, job_status, job_dir) ==
    JobOf([job_id |-> j, job_status |-> job_status, job_dir |-> job_dir,
           sub_dir |-> "sub",
           logfile_path |-> [kind |-> "ok", job_id |-> j],
           readme_filename |-> "README",
           readme_info |-> [none |-> FALSE, keys |-> REQUIRED_KEYS,
                            readme |-> "full"]])

\* the records earlier runs of the polling process left for job j
EarlierRecords(j) ==
    {NoRecord,
     Record(EarlierJob(j, JOB_STATUS_PENDING,
                       SubPath(pending_job_foldername(j))), 1, "ingest")}

\* the states the two processes start in
InitOf(filesystems, records) ==
    /\ fs \in filesystems
    /\ rs = [c \in Callers |-> IdleResolver]
    /\ first = IdleResolver
    /\ store \in {[EmptyStore EXCEPT ![ResolveJob] = rec] : rec \in records}
    /\ ing = IdleIngest
    /\ upd = IdleUpdate
    /\ kill_now = FALSE
    /\ call = NoCall
    /\ base_runs = {}
    /\ poll = IdlePoll

\* side by side: the job is pending with a complete README, or a directory
\* bears the name of its cluster script
InitSystem ==
    InitOf({f \in SystemFilesystems(ResolveJob) :
               \A e \in f.ents : e.perm /\ e.readme \in {"full", "none"}},
           EarlierRecords(ResolveJob))

InitIngest ==
    InitOf(SystemFilesystems(ResolveJob), EarlierRecords(ResolveJob))

\* ing.env notes the last change of the filesystem during a call
Noted(ev) ==
    IF ing.pc \in {"idle", "done", "crashed"} THEN ing
    ELSE [ing EXCEPT !.env = [ev |-> ev, at |-> ing.pc,
                              job_status |-> ing.job_status]]

EnvSystem ==
    /\ \/ EnvDequeue(ResolveJob) /\ ing' = Noted("dequeue")
       \/ EnvWriteScript(ResolveJob) /\ ing' = Noted("script")
       \/ EnvFinish(ResolveJob) /\ ing' = Noted("finish")
       \/ EnvDelete(ResolveJob) /\ ing' = Noted("delete")
    /\ UNCHANGED <<rs, first, store, upd, kill_now, poll, call, base_runs>>

\* the steps of a call that has begun
IngestRuns ==
    \/ RAttempt("ingest")
          /\ UNCHANGED <<fs, first, store, ing, upd, kill_now, poll, call,
                          base_runs>>
    \/ RReturn("ingest")
          /\ UNCHANGED <<fs, first, store, ing, upd, kill_now, poll, call,
                          base_runs>>
    \/ IngestAfterResolve
    \/ IngestResolveRaised
    \/ IngestLookup
    \/ IngestParse

IngestSteps ==
    \/ IngestRuns
    \/ IngestReturn

Refresh ==
    \/ UpdFetch
    \/ UpdCall
    \/ RAttempt("update")
          /\ UNCHANGED <<fs, first, store, ing, upd, kill_now, poll, call,
                          base_runs>>
    \/ RReturn("update")
          /\ UNCHANGED <<fs, first, store, ing, upd, kill_now, poll, call,
                          base_runs>>
    \/ UpdSave
    \/ UpdRaised
    \/ UpdSleep
    \/ UpdNextPass
    \/ UpdExit
    \/ UpdExcept
    \/ Kill

Next ==
    \/ \E log \in Joblogfiles : IngestBegin(log) /\ UNCHANGED poll
    \/ IngestSteps
    \/ Refresh
    \/ EnvSystem

Spec == InitSystem /\ [][Next]_vars

(***************************************************************************)
(* SpecIngest: the polling process alone                                   *)
(***************************************************************************)
\* the users also remove a README while the call runs
EnvReadme ==
    /\ EnvUnlink(ResolveJob)
    /\ ing' = Noted("unlink")
    /\ UNCHANGED <<rs, first, store, upd, kill_now, poll, call, base_runs>>

NextIngest ==
    \/ \E log \in Joblogfiles : IngestBegin(log) /\ UNCHANGED poll
    \/ IngestSteps
    \/ EnvSystem
    \/ EnvReadme

SpecIngest == InitIngest /\ [][NextIngest]_vars

(***************************************************************************)
(* SpecRaceLoop: one call of the polling process from its begin to its     *)
(* end, the steps of the call taken fairly; the README of the job folder   *)
(* may be a symbolic link whose target is missing                          *)
(***************************************************************************)
\* the job is pending with a complete README or with a README whose target
\* is missing, or a directory bears the name of its cluster script
RaceFilesystems(j) ==
    {[sub |-> "ok", ents |-> {DirEntry(pending_job_foldername(j), TRUE, r)},
      scr |-> {}] : r \in {"full", "dangling"}}
    \cup {[sub |-> "ok", ents |-> {DirEntry(ScriptNameA(j), TRUE, "none")},
           scr |-> {}]}

\* the joblogfiles of the job, and one that is missing
RaceLogs ==
    {log \in Joblogfiles : log.kind = "missing" \/
                           (log.kind = "ok" /\ log.job_id = ResolveJob)}

InitRaceLoop == InitOf(RaceFilesystems(ResolveJob), {NoRecord})

\* the job leaves the queue and finishes, the users delete its folders and
\* remove its README; no cluster script is written
EnvRace ==
    /\ \/ EnvDequeue(ResolveJob) /\ ing' = Noted("dequeue")
       \/ EnvFinish(ResolveJob) /\ ing' = Noted("finish")
       \/ EnvDelete(ResolveJob) /\ ing' = Noted("delete")
       \/ EnvUnlink(ResolveJob) /\ ing' = Noted("unlink")
    /\ UNCHANGED <<rs, first, store, upd, kill_now, poll, call, base_runs>>

NextRaceLoop ==
    \/ \E log \in RaceLogs : IngestBegin(log) /\ UNCHANGED poll
    \/ IngestRuns
    \/ EnvRace

\* the call is a sequential program: it takes its next step
SpecRaceLoop ==
    InitRaceLoop /\ [][NextRaceLoop]_vars /\ WF_vars(IngestRuns)

(***************************************************************************)
(* SpecBaseRuns: the polling process alone, on a database that holds the   *)
(* record of another job or not                                            *)
(***************************************************************************)
InitBaseRuns ==
    /\ fs \in SystemFilesystems(ResolveJob)
    /\ rs = [c \in Callers |-> IdleResolver]
    /\ first = IdleResolver
    /\ store \in {[j \in JobIds |-> IF j \in present
                                     THEN Record(EarlierJob(
                                              j, JOB_STATUS_FINISHED,
                                              SubPath(
                                                finished_job_foldername(j))),
                                              1, "ingest")
                                     ELSE NoRecord] :
                     present \in SUBSET (JobIds \ {ResolveJob})}
    /\ ing = IdleIngest
    /\ upd = IdleUpdate
    /\ kill_now = FALSE
    /\ poll = IdlePoll
    /\ call = NoCall
    /\ base_runs = {}

SpecBaseRuns == InitBaseRuns /\ [][NextIngest]_vars

(***************************************************************************)
(* SpecRefresh: the update process alone, on a database whose jobs carry   *)
(* any status (the form of the diary lets the users set each of them)      *)
(***************************************************************************)
StoredRecords(j) ==
    {NoRecord}
    \cup {Record(EarlierJob(j, s,
                            IF s = JOB_STATUS_NONE THEN NoPath
                            ELSE IF s = JOB_STATUS_PENDING
                            THEN SubPath(pending_job_foldername(j))
                            ELSE IF s = JOB_STATUS_RUNNING
                            THEN ScratchPath(ScratchName(j))
                            ELSE SubPath(finished_job_foldername(j))),
                 1, "form") :
             s \in JOB_STATUS_CHOICES}

RefreshFilesystems ==
    {[sub |-> "ok", ents |-> E, scr |-> {}] :
        E \in SUBSET ({DirEntry(pending_job_foldername(j), TRUE, "full") :
                         j \in JobIds}
                      \cup {DirEntry(ScriptNameA(ResolveJob), TRUE, "none")})}
    \cup {[sub |-> "PermissionError", ents |-> {}, scr |-> {}]}

InitRefresh ==
    /\ fs \in RefreshFilesystems
    /\ rs = [c \in Callers |-> IdleResolver]
    /\ first = IdleResolver
    /\ store \in {st \in [JobIds -> UNION {StoredRecords(j) : j \in JobIds}] :
                     \A j \in JobIds : st[j] \in StoredRecords(j)}
    /\ ing = IdleIngest
    /\ upd = IdleUpdate
    /\ kill_now = FALSE
    /\ call = NoCall
    /\ base_runs = {}
    /\ poll = IdlePoll

NextRefresh == Refresh \/ EnvSystem

SpecRefresh == InitRefresh /\ [][NextRefresh]_vars

(***************************************************************************)
(* SpecLoops: the main loops of the two processes side by side, the job    *)
(* folders at rest while joblogfiles come and go in POLL_DIR               *)
(***************************************************************************)
\* 2010-01-02__12:34:56-<job_id>.log
LogStamp ==
    <<"2", "0", "1", "0", "-", "0", "1", "-", "0", "2", "_", "_",
      "1", "2", ":", "3", "4", ":", "5", "6", "-">>
LogName(j) == LogStamp \o Str(j) \o <<".", "l", "o", "g">>

\* the files POLL_DIR may hold: the joblogfile of the job and a file that
\* is no joblogfile
PollFiles ==
    {[name |-> LogName(ResolveJob),
      log |-> [kind |-> "ok", job_id |-> ResolveJob, sub_dir |-> "sub",
               log_date |-> <<>>]],
     [name |-> LogStamp \o Str(ResolveJob) \o <<".", "t", "x", "t">>,
      log |-> [kind |-> "noid", job_id |-> 0, sub_dir |-> "sub",
               log_date |-> <<>>]]}

\* a joblogfile is written to POLL_DIR or removed from it
EnvPollDir ==
    /\ poll.access = "ok"
    /\ \E f \in PollFiles :
          \/ /\ f.name \notin FileNames(poll)
             /\ poll' = [poll EXCEPT !.dir = @ \cup {f}]
          \/ /\ f \in poll.dir
             /\ poll' = [poll EXCEPT !.dir = @ \ {f}]
    /\ UNCHANGED <<fs, rs, first, store, ing, upd, kill_now, call, base_runs>>

\* sub_dir: the job is pending and its README is complete, empty, holds a
\* Sub-Date that cannot be read, or is missing; or a directory bears the
\* name of a cluster script
LoopFilesystems ==
    {f \in SystemFilesystems(ResolveJob) :
        /\ f.sub = "ok"
        /\ \A e \in f.ents :
              e.perm /\ e.readme \in {"full", "empty", "baddate", "none"}}

InitLoops ==
    /\ fs \in LoopFilesystems
    /\ rs = [c \in Callers |-> IdleResolver]
    /\ first = IdleResolver
    /\ store \in {[EmptyStore EXCEPT ![ResolveJob] = rec] :
                     rec \in EarlierRecords(ResolveJob)}
    /\ ing = IdleIngest
    /\ upd = IdleUpdate
    /\ kill_now = FALSE
    /\ call = NoCall
    /\ base_runs = {}
    /\ poll \in {[IdlePoll EXCEPT !.dir = files] : files \in SUBSET PollFiles}
               \cup {[IdlePoll EXCEPT !.access = "FileNotFoundError"]}

NextLoops ==
    \/ PollList
    \/ PollCheck
    \/ PollFile
    \/ PollReturned
    \/ PollForEnd
    \/ PollSleep
    \/ PollNextPass
    \/ PollExit
    \/ PollExcept
    \/ PollKill
    \/ IngestRuns
    \/ Refresh
    \/ EnvPollDir

SpecLoops == InitLoops /\ [][NextLoops]_vars

\* the steps of each process; a process that can take a step takes one in
\* the end (the processes run as daemons, no step of theirs waits for the
\* other process)
PollRuns ==
    \/ PollList
    \/ PollCheck
    \/ PollFile
    \/ PollReturned
    \/ PollForEnd
    \/ PollSleep
    \/ PollNextPass
    \/ PollExit
    \/ PollExcept
    \/ IngestRuns

UpdateRuns ==
    \/ UpdFetch
    \/ UpdCall
    \/ RAttempt("update")
          /\ UNCHANGED <<fs, first, store, ing, upd, kill_now, poll, call,
                          base_runs>>
    \/ RReturn("update")
          /\ UNCHANGED <<fs, first, store, ing, upd, kill_now, poll, call,
                          base_runs>>
    \/ UpdSave
    \/ UpdRaised
    \/ UpdSleep
    \/ UpdNextPass
    \/ UpdExit
    \/ UpdExcept

\* the loops where every README is complete
InitLoopsFair ==
    /\ InitLoops
    /\ \A e \in fs.ents :
          e.readme = "full" \/ e.name = ScriptNameA(ResolveJob)

\* POLL_DIR stays as it is while the loops run
NextLoopsFair ==
    \/ PollRuns
    \/ PollKill
    \/ Refresh

SpecLoopsFair ==
    /\ InitLoopsFair
    /\ [][NextLoopsFair]_vars
    /\ WF_vars(PollRuns)
    /\ WF_vars(UpdateRuns)

(***************************************************************************)
(* SpecPollDir: the polling process alone, joblogfiles coming and going in *)
(* POLL_DIR                                                                *)
(***************************************************************************)
NextPollDir ==
    \/ PollRuns
    \/ PollKill
    \/ EnvPollDir

SpecPollDir == InitLoops /\ [][NextPollDir]_vars

(***************************************************************************)
(* SpecEdit: the update process while the users edit jobs in the detail    *)
(* view of the diary and the jobs move on                                  *)
(***************************************************************************)
\* what a user types into the field info of the form
EditedInfo == <<"form", "info">>

\* diary/views.py, detail with a POST request: the job is fetched, the form
\* assigns its fields to the instance and form.save() saves it; of the
\* fields of the form the model carries info
FormEdit ==
    /\ \E j \in JobIds :
          /\ store[j].exists
          /\ store[j].info # EditedInfo
          /\ store' = [store EXCEPT ![j] =
                         Saved([Instance(j, store[j]) EXCEPT
                                   !.info = EditedInfo], "form")]
    /\ UNCHANGED <<fs, rs, first, ing, upd, kill_now, poll, call, base_runs>>

NextEdit ==
    \/ Refresh
    \/ EnvSystem
    \/ FormEdit

SpecEdit == InitSystem /\ [][NextEdit]_vars

(***************************************************************************)
(* SpecRecent: the polling process and a pass of the update process, the   *)
(* joblogfile of the job with any submission_time; and is_recent called    *)
(* with any object                                                         *)
(***************************************************************************)
\* submission times: none, 12 hours ahead, now, 24 hours ago and an hour
\* more
RecentDates ==
    {<<>>, <<0 - 12>>, <<0>>, <<recent_limit>>, <<recent_limit + 1>>}

RecentLogs ==
    {[kind |-> "ok", job_id |-> ResolveJob, sub_dir |-> "sub", log_date |-> d] :
        d \in RecentDates}

\* what is_recent may be called with: the dates, a string, a date, an int
RecentObjects ==
    RecentDates \cup {<<"str", "this is a string">>, <<"date", 0>>,
                      <<"int", 0>>}

\* is_recent reads nothing but its argument and the clock: the model calls
\* it while the two processes are at the start of their loops
CallIsRecent ==
    /\ call = NoCall
    /\ ing = IdleIngest /\ upd = IdleUpdate
    /\ \E object \in RecentObjects :
          call' = [fn |-> "is_recent", arg |-> object,
                   ret |-> is_recent(object)]
    /\ UNCHANGED <<fs, rs, first, store, ing, upd, kill_now, poll, base_runs>>

\* one pass of the update process
NextRecent ==
    \/ \E log \in RecentLogs : IngestBegin(log) /\ UNCHANGED poll
    \/ IngestSteps
    \/ UpdFetch
    \/ UpdCall
    \/ RAttempt("update")
          /\ UNCHANGED <<fs, first, store, ing, upd, kill_now, poll, call,
                          base_runs>>
    \/ RReturn("update")
          /\ UNCHANGED <<fs, first, store, ing, upd, kill_now, poll, call,
                          base_runs>>
    \/ UpdSave
    \/ UpdRaised
    \/ EnvSystem
    \/ CallIsRecent

SpecRecent == InitSystem /\ [][NextRecent]_vars

(***************************************************************************)
(* SpecBacklog: the two main loops with several joblogfiles in POLL_DIR    *)
(* and several unfinished jobs in the database                             *)
(***************************************************************************)
\* a joblogfile of each job and one whose job_number is no integer
BacklogFiles ==
    {[name |-> LogName(j),
      log |-> [kind |-> "ok", job_id |-> j, sub_dir |-> "sub",
               log_date |-> <<>>]] : j \in JobIds}
    \cup {[name |-> LogStamp \o Str(ResolveJob) \o <<"4", ".", "l", "o", "g">>,
           log |-> [kind |-> "noid", job_id |-> 0, sub_dir |-> "sub",
                    log_date |-> <<>>]]}

\* sub_dir: every job is pending, or a directory bears the name of a
\* cluster script
BacklogFilesystems ==
    {[sub |-> "ok",
      ents |-> {DirEntry(pending_job_foldername(j), TRUE, "full") :
                  j \in JobIds},
      scr |-> {}],
     [sub |-> "ok", ents |-> {DirEntry(ScriptNameA(ResolveJob), TRUE, "none")},
      scr |-> {}]}

InitBacklog ==
    /\ fs \in BacklogFilesystems
    /\ rs = [c \in Callers |-> IdleResolver]
    /\ first = IdleResolver
    /\ store \in {EmptyStore,
                   [j \in JobIds |->
                      Record(EarlierJob(j, JOB_STATUS_PENDING,
                                        SubPath(pending_job_foldername(j))),
                             1, "ingest")]}
    /\ ing = IdleIngest
    /\ upd = IdleUpdate
    /\ kill_now = FALSE
    /\ call = NoCall
    /\ base_runs = {}
    /\ poll = [IdlePoll EXCEPT !.dir = BacklogFiles]

NextBacklog ==
    \/ PollRuns
    \/ PollKill
    \/ Refresh

SpecBacklog == InitBacklog /\ [][NextBacklog]_vars

(***************************************************************************)
(* SpecUpdateOne: update_status_of_job called for given objects, as the    *)
(* tests call it, Jobs and others                                          *)
(***************************************************************************)
\* test_wrong_input_type: 123, "123", True, False, None
NotJobs ==
    {[class |-> "int", value |-> "123"], [class |-> "str", value |-> "123"],
     [class |-> "bool", value |-> "True"],
     [class |-> "bool", value |-> "False"],
     [class |-> "NoneType", value |-> "None"]}

\* the objects passed: the Job of the record, and objects that are no Jobs
UpdateInputs(records) ==
    NotJobs \cup {Instance(ResolveJob, records[ResolveJob])}

InitUpdateOne ==
    /\ fs \in LoopFilesystems
    /\ rs = [c \in Callers |-> IdleResolver]
    /\ first = IdleResolver
    /\ store = [EmptyStore EXCEPT ![ResolveJob] =
                  Record(EarlierJob(
                             ResolveJob, JOB_STATUS_PENDING,
                             SubPath(pending_job_foldername(ResolveJob))),
                         1, "ingest")]
    /\ ing = IdleIngest
    /\ \E a, b \in UpdateInputs(store) :
          upd = [IdleUpdate EXCEPT !.pc = "loop", !.jobs_list = <<a, b>>,
                                   !.i = 1]
    /\ kill_now = FALSE
    /\ call = NoCall
    /\ base_runs = {}
    /\ poll = IdlePoll

SpecUpdateOne == InitUpdateOne /\ [][Refresh]_vars

(***************************************************************************)
(* utils/caefileio/keyvaluefile.py and joblogfile.py: the content of a     *)
(* joblogfile                                                              *)
(***************************************************************************)
\* a value that is not None
Some(v) == <<v>>

Last(seq) == seq[Len(seq)]

\* line.split(sep) for a separator of one character: the parts between the
\* separators, empty parts included
RECURSIVE split_at(_, _)
split_at(line, sep) ==
    LET seps == {i \in 1..Len(line) : line[i] = sep}
    IN IF seps = {} THEN <<line>>
       ELSE LET i == CHOOSE b \in seps : \A k \in seps : b <= k
            IN <<SubSeq(line, 1, i - 1)>>
               \o split_at(SubSeq(line, i + 1, Len(line)), sep)

\* line.split(sep, maxsplit=1)
split_once(line, sep) ==
    LET seps == {i \in 1..Len(line) : line[i] = sep}
    IN IF seps = {} THEN <<line>>
       ELSE LET i == CHOOSE b \in seps : \A k \in seps : b <= k
            IN <<SubSeq(line, 1, i - 1), SubSeq(line, i + 1, Len(line))>>

\* keyvaluefile.get_value_string_from_line
get_value_string_from_line(line) ==
    LET line_split == split_once(strip(line), ":")
    IN IF Len(line_split) > 1 THEN strip(line_split[2]) ELSE <<>>

DigitValue(c) == CHOOSE d \in 0..9 : DigitChar(d) = c

\* the number a string of digits denotes
RECURSIVE Number(_)
Number(digits) ==
    IF digits = <<>> THEN 0
    ELSE 10 * Number(SubSeq(digits, 1, Len(digits) - 1))
         + DigitValue(Last(digits))

\* int(string): blanks around the literal, a sign, digits with single
\* underscores between them; ok is FALSE where int raises ValueError
int(string) ==
    LET literal == strip(string)
        signed == literal # <<>> /\ Head(literal) \in {"+", "-"}
        body == IF signed THEN Tail(literal) ELSE literal
        digits == SelectSeq(body, LAMBDA c : c # "_")
        wellformed ==
            /\ body # <<>>
            /\ \A i \in 1..Len(body) : body[i] \in Digit \cup {"_"}
            /\ Head(body) # "_" /\ Last(body) # "_"
            /\ \A i \in 1..(Len(body) - 1) :
                  ~(body[i] = "_" /\ body[i + 1] = "_")
    IN IF wellformed
       THEN [ok |-> TRUE,
             value |-> IF signed /\ Head(literal) = "-"
                       THEN 0 - Number(digits) ELSE Number(digits)]
       ELSE [ok |-> FALSE, value |-> 0]

\* %a and %b of the C locale
Weekdays ==
    {<<"M", "o", "n">>, <<"T", "u", "e">>, <<"W", "e", "d">>,
     <<"T", "h", "u">>, <<"F", "r", "i">>, <<"S", "a", "t">>,
     <<"S", "u", "n">>}
Months ==
    <<<<"J", "a", "n">>, <<"F", "e", "b">>, <<"M", "a", "r">>,
      <<"A", "p", "r">>, <<"M", "a", "y">>, <<"J", "u", "n">>,
      <<"J", "u", "l">>, <<"A", "u", "g">>, <<"S", "e", "p">>,
      <<"O", "c", "t">>, <<"N", "o", "v">>, <<"D", "e", "c">>>>

\* one or two digits of a number within lo..hi
Within(string, lo, hi) ==
    /\ Len(string) \in {1, 2}
    /\ \A i \in 1..Len(string) : string[i] \in Digit
    /\ Number(string) \in lo..hi

\* datetime.strptime(string, "%a %b %d %H:%M:%S %Y") for fields separated
\* by single blanks; ok is FALSE where strptime raises ValueError
strptime(string) ==
    LET fields == split(string)
        clock == IF Len(fields) = 5 THEN split_at(fields[4], ":") ELSE <<>>
        wellformed ==
            /\ Len(fields) = 5
            /\ fields[1] \in Weekdays
            /\ \E m \in 1..12 : Months[m] = fields[2]
            /\ Within(fields[3], 1, 31)
            /\ Len(clock) = 3
            /\ Within(clock[1], 0, 23)
            /\ Within(clock[2], 0, 59)
            /\ Within(clock[3], 0, 61)
            /\ Len(fields[5]) = 4
            /\ \A i \in 1..4 : fields[5][i] \in Digit
    IN IF wellformed
       THEN [ok |-> TRUE,
             value |-> [year |-> Number(fields[5]),
                        month |-> CHOOSE m \in 1..12 : Months[m] = fields[2],
                        day |-> Number(fields[3]),
                        hour |-> Number(clock[1]),
                        minute |-> Number(clock[2]),
                        second |-> Number(clock[3])]]
       ELSE [ok |-> FALSE, value |-> <<>>]

\* faulty variant: the date is taken after the last colon of the line
log_date_string_LastPart(line) == strip(Last(split_at(line, ":")))

\* line 119: log_date_string = get_value_string_from_line(line)
log_date_string(line) == get_value_string_from_line(line)

KeyJobNumber ==
    <<"j", "o", "b", "_", "n", "u", "m", "b", "e", "r">>
KeySgeOWorkdir ==
    <<"s", "g", "e", "_", "o", "_", "w", "o", "r", "k", "d", "i", "r">>
KeySubmissionTime ==
    <<"s", "u", "b", "m", "i", "s", "s", "i", "o", "n", "_", "t", "i", "m",
      "e">>

\* lines 97-99: job_id = None, sub_dir = None, log_date = None
NoJobInfo == [job_id |-> NoValue, sub_dir |-> NoValue, log_date |-> NoValue]

\* lines 103-129: the body of "for line in f"
read_line(info, line) ==
    LET job_id == int(strip(Last(split_at(line, ":"))))
        with_id == IF Contains(line, KeyJobNumber) /\ job_id.ok
                   THEN [info EXCEPT !.job_id = Some(job_id.value)]
                   ELSE info
        sge_o_workdir == strip(Last(split_at(line, ":")))
        with_dir == IF Contains(line, KeySgeOWorkdir) /\ sge_o_workdir # <<>>
                    THEN [with_id EXCEPT !.sub_dir = Some(sge_o_workdir)]
                    ELSE with_id
        log_date == strptime(log_date_string(line))
    IN IF Contains(line, KeySubmissionTime) /\ log_date.ok
       THEN [with_dir EXCEPT !.log_date = Some(log_date.value)]
       ELSE with_dir

RECURSIVE read_lines(_, _)
read_lines(info, lines) ==
    IF lines = <<>> THEN info
    ELSE read_lines(read_line(info, Head(lines)), Tail(lines))

\* get_job_info_from_joblogfile: open() raises FileNotFoundError for a
\* missing file
get_job_info_from_joblogfile(joblogfile) ==
    IF ~joblogfile.exists
    THEN [exc |-> "FileNotFoundError", info |-> NoJobInfo]
    ELSE [exc |-> "none", info |-> read_lines(NoJobInfo, joblogfile.lines)]

(***************************************************************************)
(* utils/caefileio/readme.py: get_base_runs_from_line                      *)
(***************************************************************************)
\* string.split(): the parts between runs of whitespace, no empty parts
split_whitespace(string) ==
    SelectSeq(split([i \in 1..Len(string) |->
                       IF string[i] \in Whitespace THEN " " ELSE string[i]]),
              LAMBDA part : part # <<>>)

\* faulty variant: an underscore is left in the string
NonDigit_ButUnderscore(c) == c \notin Digit \cup {"_"}

\* the characters "\D" matches
NonDigit(c) == c \notin Digit

\* re.sub("\D", " ", string)
sub_NonDigit(string) ==
    [i \in 1..Len(string) |-> IF NonDigit(string[i]) THEN " " ELSE string[i]]

\* lines 201-210
get_base_runs_from_line(line) ==
    LET base_runs_string == get_value_string_from_line(line)
        clean_base_run_string == sub_NonDigit(base_runs_string)
        nums == split_whitespace(clean_base_run_string)
    IN [k \in 1..Len(nums) |-> int(nums[k]).value]

(***************************************************************************)
(* SpecCaefileio: the functions of utils/caefileio called on their own     *)
(***************************************************************************)
\* the longest value of a base-run line
MaxValueLen == 4

\* the characters of the values: digits and what the READMEs put between
\* the ids
ValueChars == {"1", "2", ",", " ", "_", ":"}

RECURSIVE Strings(_, _)
Strings(chars, n) ==
    IF n = 0 THEN {<<>>}
    ELSE LET shorter == Strings(chars, n - 1)
         IN shorter \cup {Append(string, c) : string \in shorter, c \in chars}

KeyBaseRun ==
    <<"b", "a", "s", "e", "-", "r", "u", "n", " ", "(", "j", "o", "b", "-",
      "i", "d", ")">>

\* the lines given: the key, a colon or none, the value; said holds the
\* value, <<>> for a line without colon
BaseRunLines ==
    {[said |-> value,
      text |-> KeyBaseRun \o <<":", " ">> \o value \o <<"\n">>] :
        value \in Strings(ValueChars, MaxValueLen)}
    \cup {[said |-> <<>>, text |-> KeyBaseRun \o <<" ", "1", "2">>]}

\* the values a joblogfile may give a key; text <<>> is a line without value
JobNumberValues ==
    {<<"1", "2">>,
     <<"a", "1", "2">>,
     <<>>}
SgeOWorkdirValues ==
    {<<"/", "s", "u", "b">>,
     <<>>}
SubmissionTimeValues ==
    {<<"F", "r", "i", " ", "J", "u", "l", " ", "2", "7", " ", "0", "8", ":",
      "2", "8", ":", "3", "8", " ", "2", "0", "1", "8">>,
     <<"2", "7", ".", "0", "7", ".", "2", "0", "1", "8", " ", "0", "8", ":",
       "2", "8">>,
     <<>>}

\* the line of a key: the key, a colon, blanks, the value
LogLine(key, value) == key \o <<":", " ", " ">> \o value \o <<"\n">>

\* the lines a joblogfile may hold: at most one for each key, and a line
\* without key
LogLines ==
    [key : {"job_number"}, value : JobNumberValues]
    \cup [key : {"sge_o_workdir"}, value : SgeOWorkdirValues]
    \cup [key : {"submission_time"}, value : SubmissionTimeValues]
    \cup [key : {"other"}, value : {<<>>}]

LineText(l) ==
    CASE l.key = "job_number" -> LogLine(KeyJobNumber, l.value)
      [] l.key = "sge_o_workdir" -> LogLine(KeySgeOWorkdir, l.value)
      [] l.key = "submission_time" -> LogLine(KeySubmissionTime, l.value)
      [] OTHER -> <<"\n">>

\* the joblogfiles: the chosen lines in any order, or no file.  said holds
\* the choice, lines the text
LogContents ==
    {[exists |-> FALSE, said |-> <<>>, lines |-> <<>>]}
    \cup {[exists |-> TRUE, said |-> order,
           lines |-> [k \in 1..Len(order) |-> LineText(order[k])]] :
            order \in UNION {Orders(chosen) :
                               chosen \in {c \in SUBSET LogLines :
                                   \A a, b \in c : a.key = b.key => a = b}}}

InitCaefileio ==
    /\ fs = [sub |-> "ok", ents |-> {}, scr |-> {}]
    /\ rs = [c \in Callers |-> IdleResolver]
    /\ first = IdleResolver
    /\ store = EmptyStore
    /\ ing = IdleIngest
    /\ upd = IdleUpdate
    /\ kill_now = FALSE
    /\ poll = IdlePoll
    /\ call = NoCall
    /\ base_runs = {}

CallJoblogfile ==
    /\ call = NoCall
    /\ \E joblogfile \in LogContents :
          call' = [fn |-> "get_job_info_from_joblogfile", arg |-> joblogfile,
                   ret |-> get_job_info_from_joblogfile(joblogfile)]
    /\ UNCHANGED <<fs, rs, first, store, ing, upd, kill_now, poll, base_runs>>

CallBaseRuns ==
    /\ call = NoCall
    /\ \E line \in BaseRunLines :
          call' = [fn |-> "get_base_runs_from_line", arg |-> line,
                   ret |-> get_base_runs_from_line(line.text)]
    /\ UNCHANGED <<fs, rs, first, store, ing, upd, kill_now, poll, base_runs>>

\* sub_dir with one entry that bears the name of a cluster script, or with
\* none; the scratch directory is there or not
ScriptFilesystems ==
    {[sub |-> "ok", ents |-> E, scr |-> S] :
        E \in {{}} \cup {{e} : e \in {c \in CandidateEntries(ResolveJob) :
                              cluster_script_pattern(ResolveJob, c.name)}},
        S \in CandidateScratch(ResolveJob)}

CallScratchDir ==
    /\ call = NoCall
    /\ \E f \in ScriptFilesystems, name \in {ScriptNameA(ResolveJob),
                                             ScriptNameB(ResolveJob)} :
          call' = [fn |-> "get_cluster_scratch_dir_from_script",
                   arg |-> [fs |-> f, path |-> SubPath(name)],
                   ret |-> get_cluster_scratch_dir_from_script(
                               f, SubPath(name))]
    /\ UNCHANGED <<fs, rs, first, store, ing, upd, kill_now, poll, base_runs>>

NextCaefileio ==
    \/ CallJoblogfile
    \/ CallBaseRuns
    \/ CallScratchDir

SpecCaefileio == InitCaefileio /\ [][NextCaefileio]_vars

(***************************************************************************)
(* The claims on get_job_status_and_job_dir_from_sub_dir                   *)
(***************************************************************************)
D == rs["direct"]
FinishedPath == SubPath(finished_job_foldername(ResolveJob))
ScratchDir == ScratchPath(ScratchName(ResolveJob))
HasEntry(name) == \E e \in fs.ents : e.name = name
\* the call has returned and the filesystem is the one it started on
ReturnedOnSnapshot == D.pc = "done" /\ fs = D.fs0

\* C2: on an unchanged filesystem whose sub_dir holds a directory named
\* str(job_id), the call returns (FINISHED, sub_dir/<job_id>), whatever else
\* sub_dir holds
C2_FinishedFolderWins ==
    (/\ D.pc \in {"done", "raised"}
     /\ fs = D.fs0
     /\ isdir(fs, FinishedPath))
    => (/\ D.pc = "done"
        /\ D.ret = [job_status |-> JOB_STATUS_FINISHED,
                    job_dir |-> FinishedPath])

C2_Witness ==
    /\ ReturnedOnSnapshot
    /\ isdir(fs, FinishedPath)
    /\ isdir(fs, SubPath(pending_job_foldername(ResolveJob)))
    /\ HasEntry(ScriptNameA(ResolveJob))
    /\ HasEntry(RenamedNameA(ResolveJob))
    /\ D.ret.job_status = JOB_STATUS_FINISHED

\* C6: sub_dir is listed once when recent is false and at most 3 times when
\* it is true; every pass after the first sleeps first, and a further pass
\* is made only if no earlier pass found a candidate, valid or not
C6_AttemptPolicy ==
    /\ D.checks_counter = Len(D.log)
    /\ ~D.recent => Len(D.log) <= 1
    /\ (~D.recent /\ D.pc = "done") => Len(D.log) = 1
    /\ D.recent => Len(D.log) <= 3
    /\ \A i \in 1..Len(D.log) : D.log[i].slept <=> i > 1
    /\ \A i \in 2..Len(D.log) :
          ~D.log[i - 1].valid /\ D.log[i - 1].job_status = NoStatus

C6_Witness ==
    /\ D.pc = "done"
    /\ D.recent
    /\ Len(D.log) = 3
    /\ D.log[3].slept
    /\ D.log[3].valid

\* C7: recent is true, the first pass finds nothing and the second finds a
\* cluster script whose scratch directory exists: the call returns
\* (RUNNING, scratch_dir) after two listings
C7_RunningOnSecondAttempt ==
    (/\ D.pc = "done"
     /\ D.recent
     /\ Len(D.log) >= 2
     /\ D.log[1].job_status = NoStatus
     /\ D.log[2].job_status = JOB_STATUS_RUNNING
     /\ isdir(fs, ScratchDir))
    => (/\ Len(D.log) = 2
        /\ D.ret = [job_status |-> JOB_STATUS_RUNNING,
                    job_dir |-> ScratchDir])

C7_Witness ==
    /\ D.pc = "done"
    /\ D.recent
    /\ Len(D.log) = 2
    /\ D.log[1].listed
    /\ D.log[1].job_status = NoStatus
    /\ D.log[2].job_status = JOB_STATUS_RUNNING
    /\ D.ret = [job_status |-> JOB_STATUS_RUNNING, job_dir |-> ScratchDir]

\* the call has returned after finding a candidate whose job_dir is not a
\* directory
CandidateDiscarded ==
    /\ D.pc = "done"
    /\ D.job_status # NoStatus
    /\ ~isdir(fs, D.job_dir)

\* C8 as claimed: a candidate whose job_dir is not a directory counts as no
\* candidate, so a recent call goes on until it has made 3 passes and a call
\* that is not recent returns (NONE, None)
C8_AsClaimed ==
    CandidateDiscarded
    => (/\ D.ret = [job_status |-> JOB_STATUS_NONE, job_dir |-> NoPath]
        /\ D.recent => Len(D.log) = 3)

\* C8 amended: a candidate whose job_dir is not a directory ends the loop
\* like any other candidate: the call returns (NONE, None) and the pass that
\* found the candidate is the last one, whether recent or not
C8_DiscardEndsCall ==
    CandidateDiscarded
    => (/\ D.ret = [job_status |-> JOB_STATUS_NONE, job_dir |-> NoPath]
        /\ D.log[Len(D.log)].job_status = D.job_status
        /\ \A i \in 1..(Len(D.log) - 1) : D.log[i].job_status = NoStatus)

C8_Witness ==
    /\ CandidateDiscarded
    /\ D.recent
    /\ Len(D.log) = 1
    /\ D.ret = [job_status |-> JOB_STATUS_NONE, job_dir |-> NoPath]

\* both calls of SpecTwice have ended
BothEnded == first.pc # "idle" /\ D.pc \in {"done", "raised"}
SameOutcome == D.pc = first.pc /\ D.ret = first.ret

ScriptsPresent ==
    {e \in fs.ents : e.name \in {ScriptNameA(ResolveJob),
                                  ScriptNameB(ResolveJob)}}
RenamedPresent ==
    {e \in fs.ents : e.name \in {RenamedNameA(ResolveJob),
                                  RenamedNameB(ResolveJob)}}

IngestEnded == ing.pc \in {"done", "crashed"}
IngestedRecord == store[ing.job_id]

\* the scratch directory of the running job became the finished folder
\* after the status was resolved: before the README lookup, or between the
\* lookup and the reading of the README; nothing changed since
RaceOnFinish ==
    /\ ing.job_id = ResolveJob
    /\ ing.env.ev = "finish"
    /\ ing.env.at \in {"lookup", "parse"}
    /\ ing.env.job_status = JOB_STATUS_RUNNING

\* the finished folder holds the complete, readable README of the job
FinishedFolderComplete ==
    /\ isdir(fs, FinishedPath)
    /\ NodeAt(fs, FinishedPath).perm
    /\ NodeAt(fs, FinishedPath).readme \in {"full", "fullB"}

\* C1: if the scratch directory of a RUNNING job is replaced by the finished
\* folder (README copied over) after the status was resolved and before the
\* README lookup, or between the lookup and the reading of the README, the
\* call does not raise, resolves the status again and ends with the record
\* of the job saved as FINISHED.
C1_RaceRecovered ==
    (IngestEnded /\ RaceOnFinish /\ FinishedFolderComplete)
        => /\ ing.pc = "done"
           /\ ing.result = "true"
           /\ ing.job_status_checked_counter >= 2
           /\ IngestedRecord.exists
           /\ IngestedRecord.job_status = JOB_STATUS_FINISHED
           /\ IngestedRecord.job_dir = FinishedPath
           /\ IngestedRecord.writer = "ingest"

\* C1 witness: a call returned true after the job finished between the
\* README lookup and the reading of the README
C1_Witness ==
    /\ ing.pc = "done"
    /\ RaceOnFinish
    /\ ing.env.at = "parse"
    /\ FinishedFolderComplete
    /\ ing.result = "true"
    /\ IngestedRecord.job_status = JOB_STATUS_FINISHED

\* a call whose joblogfile names a job that has a record, and that did not
\* create the record itself
CalledOnExistingId ==
    /\ IngestEnded
    /\ ing.joblogfile = "ok"
    /\ IngestedRecord.exists
    /\ ing.result # "true"

\* C3: a record is created only for a job_id that has none, a record that
\* exists is never changed by the polling process, and a call for a job_id
\* that has a record returns false before it looks at sub_dir.
C3_IdempotentOnJobId ==
    /\ [](CalledOnExistingId
             => /\ ing.pc = "done"
                /\ ing.result = "false"
                /\ ing.job_status_checked_counter = 0)
    /\ [][\A j \in JobIds : store[j].exists => store'[j] = store[j]]_vars

\* C3 witness: a second call for a job whose record, RUNNING, was created by
\* an earlier call returned false
C3_Witness ==
    /\ ing.pc = "done"
    /\ CalledOnExistingId
    /\ ing.result = "false"
    /\ IngestedRecord.writer = "ingest"
    /\ IngestedRecord.job_status = JOB_STATUS_RUNNING

\* one of the prerequisites of the record failed in the call that ended
PrerequisiteFailed ==
    \/ ing.joblogfile \in {"missing", "noid", "nosub"}
    \/ /\ ing.job_status_checked_counter > 0
       /\ ing.job_status = JOB_STATUS_NONE \/ ing.job_dir = NoPath
    \/ ing.listing = "PermissionError"
    \/ ing.reading = "PermissionError"
    \/ ing.listing = "none" /\ ing.readme_filename = "none"
    \/ ing.reading = "none" /\ ~(REQUIRED_KEYS \subseteq ing.readme_info.keys)

\* C5: when a prerequisite fails (joblogfile missing; job_id or sub_dir not
\* in it; status NONE or no job_dir; PermissionError on listing job_dir or
\* on reading the README; no README in job_dir; a required key missing from
\* the README) the call returns false and creates no record.
C5_AsClaimed ==
    (IngestEnded /\ PrerequisiteFailed)
        => /\ ing.pc = "done"
           /\ ing.result = "false"
           /\ ing.joblogfile = "ok" => ~IngestedRecord.exists

(***************************************************************************)
(* The claims on the two processes side by side                            *)
(***************************************************************************)
Consistent(job_status, job_dir) ==
    (job_dir = NoPath) <=> (job_status = JOB_STATUS_NONE)

\* C4: every (job_status, job_dir) the resolver returns, to either process,
\* and every record the polling process or the update process has written,
\* has job_dir None if and only if job_status is NONE.
C4_DirIffStatus ==
    /\ \A c \in Callers :
          rs[c].pc = "done"
              => Consistent(rs[c].ret.job_status, rs[c].ret.job_dir)
    /\ \A j \in JobIds :
          store[j].writer \in {"ingest", "update"}
              => Consistent(store[j].job_status, store[j].job_dir)

\* C4 witness: the update process has written NONE without job_dir over a
\* record, and the resolver returns a status with a job_dir to the polling
\* process
C4_Witness ==
    /\ \E j \in JobIds :
          /\ store[j].writer = "update"
          /\ store[j].job_status = JOB_STATUS_NONE
          /\ store[j].job_dir = NoPath
    /\ rs["ingest"].pc = "done"
    /\ rs["ingest"].ret.job_status # JOB_STATUS_NONE

(***************************************************************************)
(* The claims on update_status_of_unfinished_jobs_in_DB                    *)
(***************************************************************************)
Unfinished(st) ==
    {j \in JobIds : st[j].exists
                    /\ st[j].job_status \in {JOB_STATUS_PENDING,
                                             JOB_STATUS_RUNNING}}

PassEnded == upd.pc = "done"

\* C10 as stated: a pass calls update_status_of_job for exactly the jobs
\* that were PENDING or RUNNING when the pass fetched them.
C10_AsClaimed == PassEnded => upd.called = upd.fetched

\* C10: a pass selects exactly the jobs that are PENDING or RUNNING when it
\* fetches; update_status_of_job is called for selected jobs only, in the
\* order fetched, and for all of them if the pass reaches the end of the
\* list (it stops early when kill_now is set after a job); a record of a
\* job that was not selected is never changed by the pass.
C10_OnlyUnfinishedJobs ==
    /\ [](upd.called \subseteq upd.fetched)
    /\ []((PassEnded /\ upd.i >= Len(upd.jobs_list))
             => upd.called = upd.fetched)
    /\ []((PassEnded /\ upd.called # upd.fetched) => kill_now)
    /\ [][(upd.pc = "idle" /\ upd'.pc \in {"loop", "done"})
             => upd'.fetched = Unfinished(store)]_vars
    /\ [][upd' # upd
             => \A j \in JobIds :
                   store'[j] # store[j] => j \in upd.called]_vars

\* C10 witness: a pass ran to the end of its list and changed a record,
\* beside a job with another status that it did not select
C10_Witness ==
    /\ PassEnded
    /\ upd.called = upd.fetched
    /\ Cardinality(upd.fetched) = 1
    /\ \E j \in JobIds : store[j].writer = "update"
    /\ \E j \in JobIds :
          /\ j \notin upd.fetched
          /\ store[j].job_status = JOB_STATUS_NORMAL_TERMINATION

\* the step in which update_status_of_job ends for the job at hand
UpdateOneEnds == upd.pc = "resolve" /\ upd'.pc \in {"loop", "done"}
JobAtHand == upd.jobs_list[upd.i].job_id

\* C11: update_status_of_job writes the record if and only if the status
\* just resolved differs from the stored one; then the stored job_status and
\* job_dir are the resolved values and updated is later than before; with
\* the same status the record stays as it was, job_dir and updated included.
\* No other record changes.
C11_WriteIffStatusDiffers ==
    [][UpdateOneEnds
          => /\ IF rs["update"].ret.job_status # store[JobAtHand].job_status
                THEN /\ store'[JobAtHand].job_status
                           = rs["update"].ret.job_status
                     /\ store'[JobAtHand].job_dir = rs["update"].ret.job_dir
                     /\ store'[JobAtHand].updated > store[JobAtHand].updated
                ELSE store'[JobAtHand] = store[JobAtHand]
             /\ \A j \in JobIds \ {JobAtHand} : store'[j] = store[j]]_vars

\* C11 witness: the update process has saved a job as RUNNING, and ended
\* update_status_of_job for another job, still PENDING, without a write
C11_Witness ==
    /\ \E j \in JobIds :
          /\ store[j].writer = "update"
          /\ store[j].job_status = JOB_STATUS_RUNNING
          /\ store[j].job_dir = ScratchPath(ScratchName(j))
          /\ store[j].updated = 2
    /\ \E j \in upd.called :
          /\ store[j].job_status = JOB_STATUS_PENDING
          /\ store[j].updated = 1
          /\ upd.pc = "done"

\* a record without the attributes named: job_status, job_dir, updated (and
\* the history of the writer)
Frame(rec) ==
    [rec EXCEPT !.job_status = NoStatus, !.job_dir = NoPath, !.updated = 0,
                !.writer = "none"]

\* C12 as stated: a step of the update process creates and deletes no
\* record, and changes no attribute of a record but job_status, job_dir and
\* updated.
C12_AsClaimed ==
    [][upd' # upd
          => \A j \in JobIds : Frame(store'[j]) = Frame(store[j])]_vars

\* C12: a step of the update process creates and deletes no record and
\* leaves job_id, sub_dir and every other attribute of each record as they
\* were, but for job_status, job_dir, updated and the keyword_string that
\* save() rebuilds of the new job_status.
C12_OnlyStatusAndKeywords ==
    [][upd' # upd
          => \A j \in JobIds :
                /\ store'[j].exists = store[j].exists
                /\ store'[j].job_id = store[j].job_id
                /\ store'[j].sub_dir = store[j].sub_dir
                /\ [Frame(store'[j]) EXCEPT !.keyword_string = NoKeywords]
                      = [Frame(store[j]) EXCEPT !.keyword_string = NoKeywords]
                /\ store'[j].keyword_string
                      = [store[j].keyword_string EXCEPT
                            !.job_status = store'[j].job_status]]_vars

\* C12 witness: the update process has saved a job as FINISHED over the
\* record the form had left; the keyword_string names the new status
C12_Witness ==
    \E j \in JobIds :
        /\ store[j].writer = "update"
        /\ store[j].job_id = j
        /\ store[j].sub_dir = "sub"
        /\ store[j].job_status = JOB_STATUS_FINISHED
        /\ store[j].keyword_string.job_status = JOB_STATUS_FINISHED

(***************************************************************************)
(* More claims on get_job_status_and_job_dir_from_sub_dir                  *)
(***************************************************************************)
LastPass == D.log[Len(D.log)]
NoPassListed == \A i \in 1..Len(D.log) : ~D.log[i].listed

\* C13: a pass whose listing of sub_dir fails (not found, not a directory,
\* permission denied, another OSError) sets no status and no job_dir and
\* lets no exception escape; a call all of whose passes failed this way
\* returns (NONE, None).
C13_ListingFailureNoCandidate ==
    /\ (D.log # <<>> /\ ~LastPass.listed)
          => /\ D.pc # "raised"
             /\ D.job_status = NoStatus
             /\ D.job_dir = NoPath
    /\ (D.pc = "done" /\ NoPassListed)
          => D.ret = [job_status |-> JOB_STATUS_NONE, job_dir |-> NoPath]

\* C13 witness: a recent call returned (NONE, None) after three passes none
\* of which could list sub_dir, although the folder of the job is there
C13_Witness ==
    /\ D.pc = "done"
    /\ D.recent
    /\ Len(D.log) = 3
    /\ NoPassListed
    /\ HasEntry(finished_job_foldername(ResolveJob))
    /\ D.ret = [job_status |-> JOB_STATUS_NONE, job_dir |-> NoPath]

(***************************************************************************)
(* C14: when the only evidence of the job in sub_dir is the directory      *)
(* <job_id>.pending, and sub_dir stays as it was during the call, the call *)
(* returns (PENDING, sub_dir/<job_id>.pending).                            *)
(***************************************************************************)
PendingPath == SubPath(pending_job_foldername(D.job_id))

OnlyPendingFolder ==
    /\ isdir(fs, PendingPath)
    /\ \A e \in fs.ents : e.name = pending_job_foldername(D.job_id)

C14_OnlyPendingFolder ==
    (ReturnedOnSnapshot /\ OnlyPendingFolder)
        => D.ret = [job_status |-> JOB_STATUS_PENDING,
                    job_dir |-> PendingPath]

C14_Witness ==
    /\ ReturnedOnSnapshot
    /\ OnlyPendingFolder
    /\ D.ret.job_status = JOB_STATUS_PENDING

(***************************************************************************)
(* C15: when the only evidence of the job in sub_dir is a cluster script   *)
(* (a readable file named by the grammar) whose first line is              *)
(* cd /scratch/<id>*, with or without whitespace after it, and the scratch *)
(* directory it names exists, the call returns (RUNNING, "/scratch/<id>"): *)
(* the path without the trailing "*" and the trailing whitespace.          *)
(***************************************************************************)
StarLines(name) ==
    {<<"c", "d", " ">> \o ScratchRoot \o name \o <<"*">> \o trailing :
        trailing \in {<<>>, <<"\n">>, <<" ", "\n">>}}

OnlyClusterScript ==
    /\ fs.sub = "ok"
    /\ \E e \in fs.ents :
          /\ fs.ents = {e}
          /\ cluster_script_pattern(D.job_id, e.name)
          /\ e.t = "file" /\ e.perm
          /\ e.line \in StarLines(Str(D.job_id))
    /\ isdir(fs, PathOf(ScratchRoot \o Str(D.job_id)))

C15_OnlyClusterScript ==
    (ReturnedOnSnapshot /\ OnlyClusterScript)
        => D.ret = [job_status |-> JOB_STATUS_RUNNING,
                    job_dir |-> PathOf(ScratchRoot \o Str(D.job_id))]

C15_Witness ==
    /\ ReturnedOnSnapshot
    /\ OnlyClusterScript
    /\ \E e \in fs.ents : e.line[Len(e.line)] = "\n"
    /\ D.ret.job_status = JOB_STATUS_RUNNING

(***************************************************************************)
(* C16: when start_job_creation_process_from_joblogfile returns True, the  *)
(* database holds a record for the job_id of the joblogfile: job_status    *)
(* and job_dir are those of the last resolution, sub_dir is the            *)
(* sge_o_workdir of the log, logfile_path the path of the log, and         *)
(* readme_filename, main_name, solver, sub_date (made aware of the time    *)
(* zone) and info are what the README of that job_dir holds at the read.   *)
(***************************************************************************)
ReturnsTrue == ing.pc = "parse" /\ ing'.pc = "done" /\ ing'.result = "true"

C16_RecordAsResolvedAndRead ==
    [][ReturnsTrue =>
         LET rec == store'[ing.job_id]
             readme == NodeAt(fs, ing.job_dir).readme
         IN /\ rec.exists
            /\ rec.job_id = ing.job_id
            /\ ing.job_id \in JobIds
            /\ rec.job_status = ing.job_status
            /\ rec.job_dir = ing.job_dir
            /\ rec.job_status # JOB_STATUS_NONE
            /\ rec.sub_dir = "sub"
            /\ rec.logfile_path = [kind |-> "ok", job_id |-> ing.job_id]
            /\ rec.readme_filename =
                   get_readme_filename_from_job_dir(fs, ing.job_dir).name
            /\ rec.readme_filename # "none"
            /\ rec.main_name = <<readme, "main_name">>
            /\ rec.solver = <<readme, "solver">>
            /\ rec.sub_date = <<readme, "sub_date", "TIME_ZONE">>
            /\ rec.info = <<readme, "info_block">>]_vars

C16_Witness ==
    /\ ing.pc = "done"
    /\ ing.result = "true"
    /\ ing.job_status_checked_counter > 1
    /\ store[ing.job_id].job_status = JOB_STATUS_FINISHED
    /\ store[ing.job_id].solver = <<"fullB", "solver">>

(***************************************************************************)
(* C17: when job_dir is gone at the README lookup, or the README is gone   *)
(* at the read, start_job_creation_process_from_joblogfile does not raise  *)
(* but resolves the status again; when the new resolution gives NONE, or   *)
(* the job_dir it gives holds no README, the call returns False and no     *)
(* record is created.                                                      *)
(***************************************************************************)
LookupStep == ing.pc = "lookup" /\ ing'.pc # "lookup"
ParseStep == ing.pc = "parse" /\ ing'.pc # "parse"
ResolvedAgainStep ==
    /\ ing.pc = "resolve" /\ ing'.pc # "resolve"
    /\ ing.job_status_checked_counter >= 1

JobDirGone == ~Exists(fs, ing.job_dir)
ReadmeGone == isdir(fs, ing.job_dir) /\ NodeAt(fs, ing.job_dir).readme = "none"

ResolvesAgain ==
    /\ ing'.pc = "resolve"
    /\ rs'["ingest"] = CallResolver(fs, ing.job_id, is_recent(ing.log_date))
    /\ store' = store

ReturnsFalseNoRecord ==
    /\ ing'.pc = "done"
    /\ ing'.result = "false"
    /\ store' = store
    /\ ~store[ing.job_id].exists

C17_GoneResolvedAgain ==
    [][/\ (LookupStep /\ JobDirGone) => ResolvesAgain
       /\ (ParseStep /\ (JobDirGone \/ ReadmeGone)) => ResolvesAgain
       /\ (ResolvedAgainStep /\ rs["ingest"].pc = "done"
              /\ rs["ingest"].ret.job_status = JOB_STATUS_NONE)
            => ReturnsFalseNoRecord
       /\ (LookupStep /\ ing.job_status_checked_counter >= 2
              /\ ReadmeGone /\ NodeAt(fs, ing.job_dir).perm)
            => ReturnsFalseNoRecord]_vars

C17_Witness ==
    /\ ing.pc = "done"
    /\ ing.result = "false"
    /\ ing.env = [ev |-> "unlink", at |-> "parse",
                  job_status |-> JOB_STATUS_FINISHED]
    /\ ing.reading = "FileNotFoundError"
    /\ ing.job_status_checked_counter = 2
    /\ ing.job_status = JOB_STATUS_FINISHED
    /\ ~store[ing.job_id].exists

(***************************************************************************)
(* The README that the call reads next, when it can be read                *)
(***************************************************************************)
ReadmeAtHand ==
    IF isdir(fs, ing.job_dir) /\ NodeAt(fs, ing.job_dir).perm
    THEN NodeAt(fs, ing.job_dir).readme
    ELSE "none"

ItemAborted ==
    /\ ing'.pc = "done"
    /\ ing'.result = "false"
    /\ ing'.exc = "none"
    /\ store' = store

\* C18: a README whose Sub-Date cannot be parsed aborts that joblogfile only:
\* the call returns False, creates no record and raises no exception.
C18_AsClaimed ==
    [][(ParseStep /\ ReadmeAtHand = "baddate") => ItemAborted]_vars

\* C19: a README without any recognized key (the parser returns None) makes
\* the call log an error and return False without a record; it does not
\* raise.
C19_AsClaimed ==
    [][(ParseStep /\ ReadmeAtHand = "empty"
          /\ get_job_info_from_readme(fs, ing.job_dir).exc = "none"
          /\ get_job_info_from_readme(fs, ing.job_dir).info.none)
         => ItemAborted]_vars

(***************************************************************************)
(* C20: in both main loops an exception that leaves a pass is logged and   *)
(* raised again: the loop is over, no further pass starts and no further   *)
(* second is slept.                                                        *)
(***************************************************************************)
\* the polling process neither lists POLL_DIR again, nor calls for a file,
\* nor sleeps
PollStands ==
    /\ poll'.pc \in {poll.pc, "raised"}
    /\ poll'.slept = poll.slept
    /\ poll'.old = poll.old
    /\ poll'.allfiles = poll.allfiles
    /\ poll'.i = poll.i
    /\ ing' = ing
    /\ rs'["ingest"] = rs["ingest"]

\* the update process neither fetches the jobs again, nor updates a job, nor
\* sleeps
UpdStands ==
    /\ upd'.pc \in {upd.pc, "raised"}
    /\ upd'.slept = upd.slept
    /\ upd'.called = upd.called
    /\ upd'.i = upd.i
    /\ rs'["update"] = rs["update"]
    /\ \A j \in JobIds : store'[j] # store[j] => store'[j].writer # "update"

C20_ExceptionEndsLoop ==
    [][/\ (Escaped(poll, ing) \/ poll.pc = "raised") => PollStands
       /\ poll'.pc = "raised"
            => poll'.logged /\ (Escaped(poll, ing) \/ poll.pc = "raised")
       /\ poll.pc = "raised" => poll'.pc = "raised"
       /\ upd.pc \in {"crashed", "raised"} => UpdStands
       /\ upd'.pc = "raised"
            => upd'.logged /\ upd.pc \in {"crashed", "raised"}
       /\ upd.pc = "raised" => upd'.pc = "raised"]_vars

C20_Witness ==
    /\ poll.pc = "raised" /\ poll.logged
    /\ upd.pc = "raised" /\ upd.logged
    /\ upd.slept = 0 /\ poll.slept = 0

(***************************************************************************)
(* C21: in both main loops an iteration is one pass and then the timeout,  *)
(* slept in steps of one second with kill_now tested before each step;     *)
(* the next pass starts only after the whole timeout; once kill_now is set *)
(* the timeout ends at the next test, no pass is started and the loop is   *)
(* left the normal way.                                                    *)
(***************************************************************************)
C21_PassThenSleep ==
    /\ [][/\ poll'.slept > poll.slept
              => /\ poll.pc = "sleep" /\ ~poll.kill_now
                 /\ poll'.slept = poll.slept + 1
                 /\ poll'.slept <= POLL_TIMEOUT_SECONDS
          /\ (poll'.pc = "idle" /\ poll.pc # "idle")
              => /\ poll.pc = "sleep"
                 /\ poll.kill_now \/ poll.slept = POLL_TIMEOUT_SECONDS
          /\ (poll.pc = "sleep" /\ poll'.pc # "sleep") => poll'.pc = "idle"
          /\ (poll.pc = "idle" /\ poll'.pc # "idle" /\ poll.kill_now)
              => poll'.pc = "exited" /\ ~poll'.logged
          /\ upd'.slept > upd.slept
              => /\ upd.pc \in {"done", "sleep"} /\ ~kill_now
                 /\ upd'.pc = "sleep"
                 /\ upd'.slept = upd.slept + 1
                 /\ upd'.slept <= UPDATE_TIMEOUT_SECONDS
          /\ (upd'.pc = "idle" /\ upd.pc # "idle")
              => /\ upd.pc \in {"done", "sleep"}
                 /\ kill_now \/ upd.slept = UPDATE_TIMEOUT_SECONDS
          /\ (upd.pc = "sleep" /\ upd'.pc # "sleep") => upd'.pc = "idle"
          /\ (upd.pc = "idle" /\ upd'.pc # "idle" /\ kill_now)
              => upd'.pc = "exited" /\ ~upd'.logged]_vars
    /\ (poll.pc = "sleep" /\ poll.kill_now) ~> (poll.pc = "exited")
    /\ (upd.pc \in {"done", "sleep"} /\ kill_now) ~> (upd.pc = "exited")

C21_Witness ==
    /\ poll.pc = "exited" /\ poll.kill_now
    /\ poll.old # {}
    /\ upd.pc = "exited" /\ kill_now
    /\ \E j \in JobIds : store[j].writer = "update"

(***************************************************************************)
(* C22: kill_now is looked at between the items of a pass: once it is set, *)
(* each main loop begins at most one more call for an item (a joblogfile,  *)
(* a job), however many files or jobs are left, then leaves the pass and   *)
(* starts no other.                                                        *)
(***************************************************************************)
C22_AtMostOneMoreItem ==
    /\ [](poll.late <= 1 /\ upd.late <= 1)
    /\ [][/\ (poll.kill_now /\ poll.pc = "for" /\ poll'.pc # "for")
              => poll'.pc = "sleep"
          /\ (poll.kill_now /\ poll.pc = "idle" /\ poll'.pc # "idle")
              => poll'.pc = "exited"
          /\ poll'.late >= poll.late
          /\ (kill_now /\ upd.pc = "resolve" /\ upd'.pc # "resolve")
              => upd'.pc \in {"done", "crashed"}
          /\ (kill_now /\ upd.pc = "idle" /\ upd'.pc # "idle")
              => upd'.pc = "exited"
          /\ upd'.late < upd.late => upd'.pc \in {"idle", "sleep"}]_vars

C22_Witness ==
    /\ poll.kill_now /\ poll.late = 1
    /\ poll.pc = "sleep" /\ poll.i < Len(poll.added)
    /\ kill_now /\ upd.late = 1
    /\ upd.pc = "done" /\ upd.i < Len(upd.jobs_list)

(***************************************************************************)
(* C23: update_status_of_job called with an object that is no Job (an      *)
(* integer, a string, a boolean, None) does not call the resolver, writes  *)
(* nothing to the database and raises no exception: it returns.            *)
(***************************************************************************)
NotAJobAtHand ==
    /\ upd.pc = "loop"
    /\ upd.jobs_list[upd.i] \in NotJobs

C23_NotAJobIgnored ==
    /\ [](upd.pc = "resolve" => upd.jobs_list[upd.i] \notin NotJobs)
    /\ [][(NotAJobAtHand /\ upd' # upd)
            => /\ rs' = rs
               /\ store' = store
               /\ upd'.called = upd.called
               /\ upd'.pc \in {"loop", "done"}
               /\ upd'.pc = "loop" => upd'.i = upd.i + 1]_vars

C23_Witness ==
    /\ upd.pc = "done"
    /\ ~kill_now
    /\ Len(upd.jobs_list) = 2
    /\ upd.jobs_list[1] \in NotJobs
    /\ upd.jobs_list[2] = [class |-> "NoneType", value |-> "None"]
    /\ store[ResolveJob].job_status = JOB_STATUS_PENDING

(***************************************************************************)
(* C24: get_job_info_from_joblogfile takes each field from its own line:   *)
(* job_id is None for a job_number that is no integer or is empty, sub_dir *)
(* is None for an empty sge_o_workdir, log_date is None for a              *)
(* submission_time that cannot be parsed, and each of the other fields is  *)
(* returned all the same, in every order of the lines; a missing file      *)
(* raises FileNotFoundError.                                               *)
(***************************************************************************)
\* what the file says for a key: <<>> when it has no line of the key
SaidFor(joblogfile, key) ==
    LET at == {k \in 1..Len(joblogfile.said) : joblogfile.said[k].key = key}
    IN IF at = {} THEN <<>> ELSE joblogfile.said[CHOOSE k \in at : TRUE].value

ParsedJoblogfile == call.fn = "get_job_info_from_joblogfile"

DigitRuns(string) ==
    {r \in (1..Len(string)) \X (1..Len(string)) :
        /\ r[1] <= r[2]
        /\ \A i \in r[1]..r[2] : string[i] \in Digit
        /\ r[1] > 1 => string[r[1] - 1] \notin Digit
        /\ r[2] < Len(string) => string[r[2] + 1] \notin Digit}

\* a list holds the runs in their order
HoldsRuns(list, string) ==
    /\ Len(list) = Cardinality(DigitRuns(string))
    /\ \A r \in DigitRuns(string) :
          list[Cardinality({q \in DigitRuns(string) : q[1] <= r[1]})]
            = Number(SubSeq(string, r[1], r[2]))

ParsedBaseRuns == call.fn = "get_base_runs_from_line"

C25_MaximalDigitRuns ==
    ParsedBaseRuns => HoldsRuns(call.ret, call.arg.said)

\* "12,1_" gives [12, 1]
C25_Witness ==
    /\ ParsedBaseRuns
    /\ Len(call.arg.said) = MaxValueLen
    /\ \E i \in 1..Len(call.arg.said) : call.arg.said[i] = "_"
    /\ Len(call.ret) = 2
    /\ call.ret[1] = 12

(***************************************************************************)
(* C26: when the call for a joblogfile returns True, the base runs of the  *)
(* new record are the ids of the README's base-run line that the database  *)
(* holds at that moment; an id it does not hold is left out, raises        *)
(* nothing and does not keep the record from being saved.                  *)
(***************************************************************************)
BaseRunsOf(table, job_id) == {r[2] : r \in {p \in table : p[1] = job_id}}

\* the ids the README read in the last pass names
NamedBaseRuns(job) ==
    {ReadmeBaseRuns(job.readme_info.readme)[k] :
        k \in DOMAIN ReadmeBaseRuns(job.readme_info.readme)}

C26_BaseRunsInStore ==
    [][ReturnsTrue
        => /\ store'[ing.job_id].exists
           /\ BaseRunsOf(base_runs', ing.job_id) =
                 {b \in NamedBaseRuns(ing') :
                     b \in JobIds /\ store'[b].exists}
           /\ \A j \in JobIds \ {ing.job_id} :
                 BaseRunsOf(base_runs', j) = BaseRunsOf(base_runs, j)]_vars

\* the README names a job the database holds and one it does not hold
C26_Witness ==
    /\ ing.pc = "done" /\ ing.result = "true"
    /\ \E b \in NamedBaseRuns(ing) \ {ing.job_id} : ~store[b].exists
    /\ ing.job_id \in BaseRunsOf(base_runs, ing.job_id)
    /\ store[ing.job_id].exists

(***************************************************************************)
(* C27: get_cluster_scratch_dir_from_script raises nothing: it returns     *)
(* None for a cluster script that is missing or cannot be read and for a   *)
(* first line without cd or without a path after it, and it returns the    *)
(* path of the first line whether or not that directory exists.            *)
(***************************************************************************)
ParsedScript == call.fn = "get_cluster_scratch_dir_from_script"

\* the script is a file that can be read
ReadableScript(arg) ==
    /\ Exists(arg.fs, arg.path)
    /\ NodeAt(arg.fs, arg.path).t = "file"
    /\ NodeAt(arg.fs, arg.path).perm

C27_AsClaimed ==
    ParsedScript =>
        /\ ~call.ret.raised
        /\ ~ReadableScript(call.arg) => call.ret.path = NoPath
        /\ ReadableScript(call.arg) =>
              LET line == NodeAt(call.arg.fs, call.arg.path).line
                  name == ScratchName(ResolveJob)
              IN /\ line \in {<<>>, <<"c", "d", "\n">>}
                      => call.ret.path = NoPath
                 /\ line = CdLine(name) => call.ret.path = ScratchPath(name)

(***************************************************************************)
(* C28: a name of sub_dir that matches the cluster script pattern ends the *)
(* chain of checks of the pass (after the finished folder) whether or not  *)
(* the script gives a scratch directory.  As claimed: a script that gives  *)
(* none is passed over and a directory <job_id>.pending beside it makes    *)
(* the call return PENDING.  As the code has it: the pass sets RUNNING     *)
(* without job_dir, the loop ends, and the call returns (NONE, None).      *)
(***************************************************************************)
ScriptMatches == {e \in fs.ents : cluster_script_pattern(D.job_id, e.name)}

\* a file that is missing, cannot be read, is empty or has no cd line with a
\* path gives no scratch directory
GivesNoScratchDir(e) ==
    /\ e.t = "file"
    /\ get_cluster_scratch_dir_from_script(fs, SubPath(e.name)).path = NoPath

\* the call has ended on the filesystem it started on, which has no entry
\* named <job_id> and has entries named like a cluster script
EndedOnScript ==
    /\ D.pc \in {"done", "raised"}
    /\ fs = D.fs0
    /\ fs.sub = "ok"
    /\ ~HasEntry(finished_job_foldername(D.job_id))
    /\ ScriptMatches # {}

ReturnedRenamed ==
    /\ D.pc = "done"
    /\ D.ret.job_status = JOB_STATUS_FINISHED
    /\ D.ret.job_dir # FinishedPath

C29_RenamedIsLastResort ==
    /\ (ReturnedRenamed /\ fs = D.fs0)
          => (/\ ~HasEntry(finished_job_foldername(D.job_id))
              /\ ScriptMatches = {}
              /\ ~HasEntry(pending_job_foldername(D.job_id)))
    /\ ReturnedRenamed
          => ~StartsWith(D.ret.job_dir.name,
                         pending_job_foldername(D.job_id))

\* a renamed folder is returned beside a folder whose name begins like the
\* pending folder
C29_Witness ==
    /\ ReturnedRenamed
    /\ fs = D.fs0
    /\ HasEntry(PendingRenamedName(D.job_id))
    /\ D.ret.job_dir = SubPath(RenamedNameA(D.job_id))

(***************************************************************************)
(* C30: with no entry named <job_id> or <job_id>.pending and no name       *)
(* matching the cluster script pattern, the first name of the listing that *)
(* matches the renamed pattern decides.  As claimed: a directory among the *)
(* matching entries is returned as FINISHED also when matching files come  *)
(* earlier in the listing.  As the code has it: a file that comes first    *)
(* leaves the attempt without candidate.                                   *)
(***************************************************************************)
RenamedMatches ==
    {e \in fs.ents : renamed_job_folder_pattern(D.job_id, e.name)}

\* the call has returned on the filesystem it started on, where only the
\* renamed pattern can match
ReturnedOnRenamed ==
    /\ ReturnedOnSnapshot
    /\ fs.sub = "ok"
    /\ ~HasEntry(finished_job_foldername(D.job_id))
    /\ ScriptMatches = {}
    /\ ~HasEntry(pending_job_foldername(D.job_id))
    /\ RenamedMatches # {}

FinishedWithRenamedDir ==
    /\ D.ret.job_status = JOB_STATUS_FINISHED
    /\ \E e \in RenamedMatches :
          e.t = "dir" /\ D.ret.job_dir = SubPath(e.name)

\* every attempt was made and none set a status
NoneAfterAllAttempts ==
    /\ D.ret = [job_status |-> JOB_STATUS_NONE, job_dir |-> NoPath]
    /\ Len(D.log) = checks_limit(D.recent)
    /\ \A i \in 1..Len(D.log) : D.log[i].job_status = NoStatus

C30_AsClaimed ==
    (ReturnedOnRenamed /\ \E e \in RenamedMatches : e.t = "dir")
        => FinishedWithRenamedDir

C30_FirstMatchDecides ==
    /\ (ReturnedOnRenamed /\ \A e \in RenamedMatches : e.t = "dir")
          => FinishedWithRenamedDir
    /\ (ReturnedOnRenamed /\ \A e \in RenamedMatches : e.t = "file")
          => NoneAfterAllAttempts
    /\ ReturnedOnRenamed
          => (FinishedWithRenamedDir \/ NoneAfterAllAttempts)

\* a file came first in each of the three listings
C30_Witness ==
    /\ ReturnedOnRenamed
    /\ \E e \in RenamedMatches : e.t = "dir"
    /\ \E e \in RenamedMatches : e.t = "file"
    /\ D.recent
    /\ NoneAfterAllAttempts

(***************************************************************************)
(* C31: a call for job J never returns FINISHED, RUNNING or PENDING from   *)
(* a directory, pending folder or cluster script of another job J', in     *)
(* particular of one whose decimal string begins with str(J).              *)
(***************************************************************************)
\* every entry of sub_dir was put there for ResolveJob, none for the job of
\* the call
CalledForOtherJob ==
    /\ D.job_id = OtherJobCall
    /\ D.job_id # ResolveJob
    /\ \A e \in fs.ents \cup D.fs0.ents : e \in CandidateEntries(ResolveJob)
    /\ \A e \in fs.ents \cup D.fs0.ents : e \notin CandidateEntries(D.job_id)

\* C31 as the claim states it: the call returns (NONE, None)
C31_AsClaimed ==
    (D.pc = "done" /\ CalledForOtherJob)
        => D.ret.job_status = JOB_STATUS_NONE

(***************************************************************************)
(* C32: a call of the resolver raises no exception whatever sub_dir holds  *)
(* and returns a pair whose status is NONE, PENDING, RUNNING or FINISHED,  *)
(* also when the entry named like a cluster script is a directory.         *)
(***************************************************************************)
ResolverStatuses ==
    {JOB_STATUS_NONE, JOB_STATUS_PENDING, JOB_STATUS_RUNNING,
     JOB_STATUS_FINISHED}

\* C32 as the claim states it: no call ends in an exception, and a call
\* that returned gave one of the four statuses
C32_AsClaimed ==
    /\ D.pc # "raised"
    /\ D.pc = "done" => D.ret.job_status \in ResolverStatuses

(***************************************************************************)
(* C33: a call of the polling process for a joblogfile comes to its end    *)
(* whenever the filesystem changes only finitely often while it runs.      *)
(***************************************************************************)
\* the call has gone into the race-recovery loop
InRaceLoop == ing.pc \in {"resolve", "lookup", "parse"}

\* the call has returned, or an exception has left it
CallEnded == ing.pc \in {"done", "crashed"}

\* C33 as the claim states it; every step of the environment moves the job
\* on or removes something, so the filesystem changes finitely often in
\* every behaviour
C33_AsClaimed == InRaceLoop ~> CallEnded

(***************************************************************************)
(* C34: the record that start_job_creation_process_from_joblogfile saves   *)
(* holds the job_status, the job_dir and the readme_filename that one and  *)
(* the same iteration of the race-recovery loop obtained, the last one;    *)
(* what an iteration that ended in a race obtained is not saved.           *)
(***************************************************************************)
C34_FromLastIteration ==
    [][ReturnsTrue =>
         LET rec == store'[ing.job_id]
         IN /\ ing.seen.job_status \in JOB_STATUS_CHOICES \ {JOB_STATUS_NONE}
            /\ ing.seen.job_dir # NoPath
            /\ ing.seen.readme_filename \notin {"unset", "none"}
            /\ rec.job_status = ing.seen.job_status
            /\ rec.job_dir = ing.seen.job_dir
            /\ rec.readme_filename = ing.seen.readme_filename]_vars

\* the call saved FINISHED after an iteration that had found another status
\* and ended in a race
C34_Witness ==
    /\ ing.pc = "done"
    /\ ing.result = "true"
    /\ ing.job_status_checked_counter > 1
    /\ ing.env.at \in {"lookup", "parse"}
    /\ ing.env.job_status = JOB_STATUS_PENDING
    /\ store[ing.job_id].job_status = JOB_STATUS_FINISHED
    /\ store[ing.job_id].job_dir = FinishedPath

(***************************************************************************)
(* C35: once the update process has saved the status NONE for a job, no    *)
(* later pass selects the job, calls the resolver for it or changes its    *)
(* record, whatever sub_dir holds by then.                                 *)
(***************************************************************************)
NoneWritten(j) ==
    /\ store[j].exists
    /\ store[j].job_status = JOB_STATUS_NONE
    /\ store[j].writer = "update"

\* a pass evaluates the queryset
FetchStep == upd.pc = "idle" /\ upd'.pc \in {"loop", "done"}

\* update_status_of_job calls the resolver for job j
ResolverCalledFor(j) ==
    /\ rs["update"].pc = "idle"
    /\ rs'["update"].pc = "run"
    /\ rs'["update"].job_id = j

C35_NoneIsAbsorbing ==
    [][\A j \in JobIds :
          NoneWritten(j) =>
              /\ store'[j] = store[j]
              /\ FetchStep => j \notin upd'.fetched
              /\ ~ResolverCalledFor(j)]_vars

\* a pass that began after the write has ended while the finished folder of
\* the job stands in sub_dir
C35_Witness ==
    /\ NoneWritten(ResolveJob)
    /\ isdir(fs, FinishedPath)
    /\ upd.pc = "done"
    /\ ResolveJob \notin upd.fetched

(***************************************************************************)
(* C36: main passes a joblogfile to                                        *)
(* start_job_creation_process_from_joblogfile only in a pass whose         *)
(* predecessor did not list it: a file that stays in POLL_DIR is not       *)
(* passed again, whatever the call returned; it is passed again only after *)
(* a pass that did not list it.                                            *)
(***************************************************************************)
\* the call for the file at hand begins
HandedOver == poll.pc = "file" /\ poll'.pc = "call"

C36_OnlyWhenNew ==
    [][HandedOver =>
          /\ poll.added[poll.i] \in poll.allfiles
          /\ poll.added[poll.i] \notin poll.prev
          /\ poll'.handed = poll.handed \cup {poll.added[poll.i]}]_vars

\* the second of two passes that listed the joblogfile has nothing to do,
\* though the call of the first pass returned False
C36_Witness ==
    /\ poll.pc = "for"
    /\ LogName(ResolveJob) \in poll.handed
    /\ LogName(ResolveJob) \in poll.prev
    /\ LogName(ResolveJob) \in poll.allfiles
    /\ poll.added = <<>>
    /\ ~store[ResolveJob].exists

(***************************************************************************)
(* C37: a save of the update process loses no edit of the users: what the  *)
(* detail view wrote to a record after the pass fetched the jobs and       *)
(* before update_status_of_job saves the job is in the database after that *)
(* save.                                                                   *)
(***************************************************************************)
\* update_status_of_job saves job j
UpdateSaves(j) ==
    /\ upd.pc = "resolve"
    /\ store'[j] # store[j]
    /\ store'[j].writer = "update"

\* C37 as the claim states it: the field the users edit is after the save
\* what it was in the database before the save
C37_AsClaimed ==
    [][\A j \in JobIds : UpdateSaves(j) => store'[j].info = store[j].info]_vars

(***************************************************************************)
(* C38: the flag recent that start_job_creation_process_from_joblogfile    *)
(* passes to the resolver is true exactly when the submission_time of the  *)
(* log is a datetime and now minus it is at most 24 hours, a time still to *)
(* come included; it is false for None and for an object that is no        *)
(* datetime; update_status_of_job always passes recent = True.             *)
(***************************************************************************)
\* the datetimes that lie at most 24 hours before now
Within24Hours(object) ==
    /\ object # <<>>
    /\ Len(object) = 1
    /\ object[1] \in Int
    /\ ~(object[1] > 24)

====
